---- MODULE Spec2Model ----
(***************************************************************************)
(* Spectrum-sweep engine of the QS-UV-K1 custom firmware.                  *)
(*                                                                         *)
(* The repository holds two variants of the engine:                        *)
(*   "spectrum_c" : src/App/app/spectrum.c                                 *)
(*   "part_000"   : the C text of src/unnamed/part_000 (from line 496)     *)
(* The variable `variant` says which of the two is running; it never       *)
(* changes.  Definitions without suffix model spectrum.c (and the code the *)
(* two files share verbatim); definitions ending in P model part_000.      *)
(*                                                                         *)
(* Modelled build: ENABLE_FEAT_N7SIX_SPECTRUM and ENABLE_SCAN_RANGES are   *)
(* defined, no scan range is active (gScanRangeStart = 0), and             *)
(* SPECTRUM_AUTOMATIC_SQUELCH is defined or not (`autoSquelch`).           *)
(*                                                                         *)
(* The C globals are the variables of the module.  Every C function is an  *)
(* operator from the record of all globals to the record after the call;   *)
(* an action applies the whole handler to the current globals.             *)
(***************************************************************************)
EXTENDS Integers, Sequences, FiniteSets, TLC

VARIABLES
    variant,            \* which source file is running
    autoSquelch,        \* build flag SPECTRUM_AUTOMATIC_SQUELCH
    dBmCorr,            \* dBmCorrTable[gRxVfo->Band]
    isInitialized, isListening, monitorMode, newScanStart, preventKeypress,
    audioState, currentState, previousState,
    peak, scanInfo, settings,
    fMeasure, currentFreq, initialFreq,
    rssiHistory, waterfallHistory, waterfallIndex,
    wfCounterScan, wfCounterListen,
    menuState, listenT,
    blacklistFreqs, blacklistFreqsIdx,
    kbd,                \* KeyboardState {prev, current, counter}
    rfLevel,            \* environment: the RSSI the front end reports now
    pressed,            \* environment: the key held down now
    events,             \* environment: inputs (keys, level changes, tails) so far
    rounds,             \* sweep completions and listening samples so far
    preventKeypressTimeout,  \* watchdog counter of the main loop (part_000)
    since,              \* UpdateScan calls and measurements since InitScan,
                        \* sweep completions since the peak was refreshed, and
                        \* passes in a row that ended with preventKeypress set
    freqInput,          \* freqInputIndex, freqInputDotIndex, freqInputArr, tempFreq
    flash,              \* the 8 bytes at 0x00c000 of the external flash
    ev,                 \* what the last handler did (observation only)
    polls               \* reads of register 0x63 by the GetRssi call in progress,
                        \* counted 1 .. MaxPolls and then from 1 again

progVars == << variant, autoSquelch, dBmCorr,
           isInitialized, isListening, monitorMode, newScanStart, preventKeypress,
           audioState, currentState, previousState,
           peak, scanInfo, settings,
           fMeasure, currentFreq, initialFreq,
           rssiHistory, waterfallHistory, waterfallIndex,
           wfCounterScan, wfCounterListen,
           menuState, listenT,
           blacklistFreqs, blacklistFreqsIdx,
           kbd, rfLevel, pressed, events, rounds, preventKeypressTimeout, since,
           freqInput, flash, ev >>

vars == << progVars, polls >>

----------------------------------------------------------------------------
(* Program constants *)

RSSI_MAX_VALUE == 65535
SPECTRUM_MAX_STEPS == 128
WATERFALL_HISTORY_DEPTH == 16
WATERFALL_HISTORY_DEPTH_P == 12
WATERFALL_ROWS == 40
BLACKLIST_MAX_ENTRIES == 15
DISPLAY_DBM_MIN == -130
DISPLAY_DBM_MAX == -50
PEAK_TIMEOUT == 1024
LISTEN_T_OPEN == 20
LISTEN_T_HOLD == 100
LISTEN_T_HOLD_P == 400
HYSTERESIS_P == 4
MIN_TRIGGER_P == 40

STEPS_128 == 0
STEPS_64 == 1
STEPS_16 == 3
S_STEP_2_5kHz == 4
S_STEP_25_0kHz == 12
S_STEP_100_0kHz == 14
MODULATION_UKNOWN == 3
MENU_LAST == 4
WATCHDOG_P == 100000
F_MIN == 1800000
F_MAX == 130000000
FREQ_INPUT_LEN == 10
JUMP_P == 20000

modulationTypeTuneSteps == << 100, 50, 10 >>

scanStepValues ==
    << 1, 10, 50, 100, 250, 500, 625, 833, 1000, 1250, 1500, 2000, 2500, 5000, 10000 >>

States == {"SPECTRUM", "STILL", "FREQ_INPUT"}
Variants == {"spectrum_c", "part_000"}

----------------------------------------------------------------------------
(* Bounds and input sets of the model *)

MaxRounds == 3
MaxEvents == 2
KeyCost == 2
MaxPolls == 2
MaxTyping == 5
EntryCost == 3
MaxPresses == 5
OtherCost == 2
MaxSteps == 1200
MaxLevelChanges == 1
RssiVals == {0, 150, 153, 300}
CorrVals == {-15}
VfoFreqs == {14652500}
FlashVals == {204, 192}
FlashRest == << 17, 0, 255, 0, 90, 165, 1, 254 >>
SlotBins == {0, 1}
Rssi16 == (0 .. 1023) \cup (32256 .. 33279) \cup (64512 .. 65535)
CorrRange == {-128, -25, -15, -1, 0, 127}
Keys == {"KEY_0", "KEY_1", "KEY_3", "KEY_4", "KEY_5", "KEY_MENU", "KEY_UP",
         "KEY_EXIT", "KEY_STAR", "KEY_F", "KEY_PTT", "KEY_SIDE1"}

----------------------------------------------------------------------------
(* C arithmetic *)

U8(x) == x % 256
U16(x) == x % 65536

(* uint32_t.  The value v is held as v when v < 2^31 and as v - 2^32 when  *)
(* v >= 2^31, so that every 32-bit value is a 32-bit integer of the model. *)
INT_MAX == 2147483647

AddU32(a, b) ==
    IF a >= 0 /\ b >= 0 /\ a > INT_MAX - b
    THEN ((a - INT_MAX - 1) + b) - INT_MAX - 1
    ELSE IF a < 0 /\ b < 0 /\ a < (0 - INT_MAX - 1) - b
         THEN ((a + INT_MAX + 1) + b) + INT_MAX + 1
         ELSE a + b

NegU32(a) == IF a = 0 - INT_MAX - 1 THEN a ELSE 0 - a

SubU32(a, b) == AddU32(a, NegU32(b))

LtU32(a, b) == IF (a < 0) = (b < 0) THEN a < b ELSE b < 0

RECURSIVE MulU32(_, _)
MulU32(a, n) == IF n = 0 THEN 0 ELSE AddU32(a, MulU32(a, n - 1))

\* unsigned 32-bit quotient, for a numerator below 2^31
DivU32(a, b) == IF b < 0 THEN 0 ELSE a \div b

Min(a, b) == IF a < b THEN a ELSE b
Max(a, b) == IF a > b THEN a ELSE b

clamp(v, lo, hi) == IF v <= lo THEN lo ELSE IF v >= hi THEN hi ELSE v

Rssi2DBm(g, rssi) == (rssi \div 2) - 160 + g.dBmCorr

(* dbm2rssi with the band correction added instead of subtracted. *)
dbm2rssiPlusCorr(g, dBm) == U16((dBm + 160 + g.dBmCorr) * 2)

dbm2rssi(g, dBm) == U16((dBm + 160 - g.dBmCorr) * 2)

S16(x) == IF U16(x) >= 32768 THEN U16(x) - 65536 ELSE U16(x)

----------------------------------------------------------------------------
(* Observation record: what the handler that just ran did.  It is reset at *)
(* the start of every handler and never read by the program.               *)

EvNone ==
    [ tick |-> FALSE,         \* the handler was a pass of the main loop
      tuned |-> << >>,        \* frequencies written to the front end (SetF)
      measured |-> << >>,     \* rssiHistory indices written by Measure
      rxFreq |-> -1,          \* fMeasure when ToggleRX(true) configured RX
      polled |-> FALSE,       \* HandleUserInput ran
      key |-> "KEY_INVALID",  \* key dispatched to a key handler
      completion |-> FALSE,   \* sweep-completion processing ran
      trigAtCompletion |-> -1, \* trigger level when completion processing began
      listened |-> FALSE,     \* UpdateListening took a sample
      tail |-> FALSE,         \* the tail-tone interrupt was pending
      lock |-> FALSE,         \* ToggleRX(true) switched the receiver on
      unlock |-> FALSE,       \* UpdateListening ended listening
      forced |-> FALSE,       \* UpdatePeakInfoForce ran
      stepped |-> FALSE,      \* NextScanStep ran
      starts |-> << >>,       \* << i, rssiMax, rssiMin >> after each sweep start
      startF |-> << >>,       \* scanInfo.f after each sweep start
      scanAt |-> << >>,       \* << bin, frequency >> of each measurement of Scan
      autoTrig |-> FALSE,     \* AutoTriggerLevel ran
      wfPush |-> 0,           \* waterfall pushes
      wfRows |-> {},          \* history rows the pushes wrote to
      wfMax |-> 0,            \* largest value the pushes wrote
      divZero |-> FALSE,      \* a push divided by zero
      oob |-> FALSE,          \* rssiHistory accessed at index >= 128
      conv |-> FALSE,         \* Rssi2DBm and dbm2rssi were applied in turn
      reloaded |-> FALSE ]    \* the settings were saved and loaded again

----------------------------------------------------------------------------
(* Radio and sweep helpers *)

SetF(g, f) == [g EXCEPT !.fMeasure = f, !.ev.tuned = Append(@, f)]

IsPeakOverLevel(g) == g.peak.rssi >= g.settings.rssiTriggerLevel

(* IsPeakOverLevel of part_000 with twice the hysteresis margin. *)
IsPeakOverLevelWideP(g) ==
    LET effectiveThreshold ==
            IF g.isListening THEN U16(g.settings.rssiTriggerLevel - 2 * HYSTERESIS_P)
                             ELSE g.settings.rssiTriggerLevel
    IN  g.peak.rssi > effectiveThreshold

IsPeakOverLevelP(g) ==
    LET effectiveThreshold ==
            IF g.isListening THEN U16(g.settings.rssiTriggerLevel - HYSTERESIS_P)
                             ELSE g.settings.rssiTriggerLevel
    IN  g.peak.rssi > effectiveThreshold

PeakOver(g) ==
    IF g.variant = "part_000" THEN IsPeakOverLevelP(g) ELSE IsPeakOverLevel(g)

ResetPeak(g) == [g EXCEPT !.peak.t = 0, !.peak.rssi = 0]

IsCenterMode(g) == g.settings.scanStepIndex < S_STEP_2_5kHz

GetScanStep(g) == scanStepValues[g.settings.scanStepIndex + 1]

GetStepsCount(g) == 128 \div (2 ^ g.settings.stepsCount)

GetBW(g) == GetStepsCount(g) * GetScanStep(g)

(* GetFStart that takes the current frequency as the start in every mode. *)
GetFStartNoCenter(g) == g.currentFreq

GetFStart(g) ==
    IF IsCenterMode(g) THEN SubU32(g.currentFreq, GetBW(g) \div 2) ELSE g.currentFreq

(* TuneToPeak without the SetF call: the sweep position moves to the peak
   but the receiver stays on the last sweep step. *)
TuneToPeakNoSetF(g) ==
    [g EXCEPT !.since.fresh = FALSE,
              !.scanInfo.f = g.peak.f,
              !.scanInfo.rssi = g.peak.rssi,
              !.scanInfo.i = g.peak.i]

TuneToPeak(g) ==
    SetF([g EXCEPT !.since.fresh = FALSE,
                   !.scanInfo.f = g.peak.f,
                   !.scanInfo.rssi = g.peak.rssi,
                   !.scanInfo.i = g.peak.i],
         g.peak.f)

ToggleAudio(g, on) == [g EXCEPT !.audioState = on]

(* ToggleRX that leaves the audio path on when the receiver stops listening. *)
ToggleRXLeavesAudioOn(g, on) ==
    IF g.isListening = on THEN g
    ELSE IF on
         THEN [ToggleAudio(g, TRUE) EXCEPT !.isListening = TRUE,
                                           !.listenT = LISTEN_T_OPEN,
                                           !.ev.rxFreq = g.fMeasure,
                                           !.ev.lock = TRUE]
         ELSE [g EXCEPT !.isListening = FALSE]

ToggleRX(g, on) ==
    IF g.isListening = on THEN g
    ELSE IF on
         THEN [ToggleAudio(g, TRUE) EXCEPT !.isListening = TRUE,
                                           !.listenT = LISTEN_T_OPEN,
                                           !.ev.rxFreq = g.fMeasure,
                                           !.ev.lock = TRUE]
         ELSE [ToggleAudio(g, FALSE) EXCEPT !.isListening = FALSE]

ResetScanStats(g) ==
    [g EXCEPT !.scanInfo.rssi = 0, !.scanInfo.rssiMax = 0,
              !.scanInfo.iPeak = 0, !.scanInfo.fPeak = 0]

ResetScanStatsP(g) ==
    [g EXCEPT !.scanInfo.rssi = 0, !.scanInfo.rssiMax = 0,
              !.scanInfo.rssiMin = RSSI_MAX_VALUE,
              !.scanInfo.iPeak = 0, !.scanInfo.fPeak = 0]

ResetStats(g) ==
    IF g.variant = "part_000" THEN ResetScanStatsP(g) ELSE ResetScanStats(g)

InitScan(g) ==
    [ResetStats(g) EXCEPT !.since.calls = 0, !.since.meas = 0, !.since.fresh = TRUE,
                          !.scanInfo.i = 0,
                          !.scanInfo.f = GetFStart(g),
                          !.scanInfo.scanStep = GetScanStep(g),
                          !.scanInfo.measurementsCount = GetStepsCount(g)]

(* A sweep has been started: the observation record takes scanInfo.i,       *)
(* scanInfo.rssiMax and scanInfo.rssiMin as the code that started it left  *)
(* them.                                                                   *)
SweepStarted(g) ==
    [g EXCEPT !.ev.starts =
                  Append(@, << g.scanInfo.i, g.scanInfo.rssiMax, g.scanInfo.rssiMin >>),
              !.ev.startF = Append(@, g.scanInfo.f)]

ResetBlacklist(g) ==
    [g EXCEPT !.rssiHistory =
                  [i \in DOMAIN @ |->
                      IF i < SPECTRUM_MAX_STEPS /\ @[i] = RSSI_MAX_VALUE THEN 0 ELSE @[i]],
              !.blacklistFreqs = [i \in DOMAIN @ |-> 0],
              !.blacklistFreqsIdx = 0,
              !.since.listed = {}]

RelaunchScan(g) ==
    LET g1 == ToggleRX(ResetPeak(InitScan(g)), FALSE)
    IN  SweepStarted([g1 EXCEPT !.settings.rssiTriggerLevel =
                                    IF g.autoSquelch THEN RSSI_MAX_VALUE ELSE @,
                                !.preventKeypress = TRUE,
                                !.scanInfo.rssiMin = RSSI_MAX_VALUE])

RelaunchScanP(g) ==
    [g EXCEPT !.scanInfo.scanStep =
                  U16(g.settings.frequencyChangeStep \div GetStepsCount(g)),
              !.scanInfo.f = SubU32(g.currentFreq, g.settings.frequencyChangeStep \div 2),
              !.scanInfo.i = 0,
              !.since.fresh = FALSE,
              !.rssiHistory =
                  [i \in DOMAIN @ |-> IF i < SPECTRUM_MAX_STEPS THEN 0 ELSE @[i]],
              !.newScanStart = TRUE]

Relaunch(g) == IF g.variant = "part_000" THEN RelaunchScanP(g) ELSE RelaunchScan(g)

UpdateScanInfo(g) ==
    LET g1 == IF g.scanInfo.rssi > g.scanInfo.rssiMax
              THEN [g EXCEPT !.scanInfo.rssiMax = g.scanInfo.rssi,
                             !.scanInfo.fPeak = g.scanInfo.f,
                             !.scanInfo.iPeak = g.scanInfo.i]
              ELSE g
    IN  IF g1.scanInfo.rssi < g1.scanInfo.rssiMin
        THEN [g1 EXCEPT !.scanInfo.rssiMin = g1.scanInfo.rssi,
                        !.settings.dbMin = Rssi2DBm(g1, g1.scanInfo.rssi)]
        ELSE g1

----------------------------------------------------------------------------
(* Adaptive trigger *)

RampStep(diff) == IF diff > 6 THEN 3 ELSE IF diff > 3 THEN 2 ELSE 1

AutoTriggerLevel(g) ==
    LET trig == g.settings.rssiTriggerLevel
        rssiMax == g.scanInfo.rssiMax
        initialTrigger == U16(rssiMax + 20)
        t0 == U16(clamp(rssiMax + 8, 0, RSSI_MAX_VALUE))
        MIN_TRIGGER == U16(rssiMax + 15)
        newTrigger == IF t0 < MIN_TRIGGER THEN MIN_TRIGGER ELSE t0
        up == LET diff == S16(S16(newTrigger) - S16(trig))
                  v == U16(trig + RampStep(diff))
              IN  IF v > newTrigger THEN newTrigger ELSE v
        down == LET diff == S16(S16(trig) - S16(newTrigger))
                    v == U16(trig - RampStep(diff))
                IN  IF v < newTrigger THEN newTrigger ELSE v
        new == IF trig = RSSI_MAX_VALUE
               THEN U16(clamp(initialTrigger, 0, RSSI_MAX_VALUE))
               ELSE IF newTrigger > trig THEN up
               ELSE IF newTrigger < trig - 4 THEN down
               ELSE trig
    IN  [g EXCEPT !.settings.rssiTriggerLevel = new, !.ev.autoTrig = TRUE]

AutoTriggerLevelP(g) ==
    LET trig == g.settings.rssiTriggerLevel
        noiseFloor == g.scanInfo.rssiMin
        targetTrigger == U16(noiseFloor + 12)
        moved == IF targetTrigger > trig THEN U16(trig + 1)
                 ELSE IF targetTrigger < trig THEN U16(trig - 1)
                 ELSE trig
        new == IF trig = RSSI_MAX_VALUE THEN U16(targetTrigger + 20)
               ELSE IF moved < MIN_TRIGGER_P THEN MIN_TRIGGER_P ELSE moved
    IN  [g EXCEPT !.settings.rssiTriggerLevel = new, !.ev.autoTrig = TRUE]

AutoTrigger(g) ==
    IF g.variant = "part_000" THEN AutoTriggerLevelP(g) ELSE AutoTriggerLevel(g)

(* The level AutoTriggerLevel moves the trigger level to: newTrigger of    *)
(* spectrum.c, targetTrigger of part_000                                   *)
TriggerTarget(g) ==
    IF g.variant = "part_000" THEN U16(g.scanInfo.rssiMin + 12)
    ELSE LET t0 == U16(clamp(g.scanInfo.rssiMax + 8, 0, RSSI_MAX_VALUE))
             MIN_TRIGGER == U16(g.scanInfo.rssiMax + 15)
         IN  IF t0 < MIN_TRIGGER THEN MIN_TRIGGER ELSE t0

ClampRssiTriggerLevel(g) ==
    [g EXCEPT !.settings.rssiTriggerLevel =
                  U16(clamp(@, dbm2rssi(g, g.settings.dbMin),
                            dbm2rssi(g, g.settings.dbMax)))]

UpdateRssiTriggerLevel(g, inc) ==
    ClampRssiTriggerLevel(
        [g EXCEPT !.settings.rssiTriggerLevel = IF inc THEN U16(@ + 2) ELSE U16(@ - 2)])

UpdateDBMax(g, inc) ==
    IF inc /\ g.settings.dbMax < 10
    THEN ClampRssiTriggerLevel([g EXCEPT !.settings.dbMax = @ + 1])
    ELSE IF ~inc /\ g.settings.dbMax > g.settings.dbMin
         THEN ClampRssiTriggerLevel([g EXCEPT !.settings.dbMax = @ - 1])
         ELSE g

----------------------------------------------------------------------------
(* Peak tracking *)

UpdatePeakInfoForce(g) ==
    AutoTrigger([g EXCEPT !.peak.t = 0,
                          !.peak.rssi = g.scanInfo.rssiMax,
                          !.peak.f = g.scanInfo.fPeak,
                          !.peak.i = g.scanInfo.iPeak,
                          !.ev.forced = TRUE])

(* UpdatePeakInfo without the age limit. *)
UpdatePeakInfoNoTimeout(g) ==
    IF g.peak.f = 0 \/ g.peak.rssi < g.scanInfo.rssiMax
    THEN UpdatePeakInfoForce(g)
    ELSE [g EXCEPT !.peak.t = U16(@ + 1)]

(* UpdatePeakInfo that lets the peak age to twice the timeout. *)
UpdatePeakInfoLateTimeout(g) ==
    IF g.peak.f = 0 \/ g.peak.t >= 2 * PEAK_TIMEOUT \/ g.peak.rssi < g.scanInfo.rssiMax
    THEN UpdatePeakInfoForce(g)
    ELSE [g EXCEPT !.peak.t = U16(@ + 1)]

(* UpdatePeakInfo that also refreshes the peak when the sweep maximum equals it. *)
UpdatePeakInfoOnEqual(g) ==
    IF g.peak.f = 0 \/ g.peak.t >= PEAK_TIMEOUT \/ g.peak.rssi <= g.scanInfo.rssiMax
    THEN UpdatePeakInfoForce(g)
    ELSE [g EXCEPT !.peak.t = U16(@ + 1)]

UpdatePeakInfo(g) ==
    IF g.peak.f = 0 \/ g.peak.t >= PEAK_TIMEOUT \/ g.peak.rssi < g.scanInfo.rssiMax
    THEN UpdatePeakInfoForce(g)
    ELSE [g EXCEPT !.peak.t = U16(@ + 1)]

----------------------------------------------------------------------------
(* Measurement.  rssiHistory has SPECTRUM_MAX_STEPS elements; index 128 of *)
(* the model is the word that follows the array in memory.                 *)

SetRssiHistory(g, idx, rssi) ==
    [g EXCEPT !.rssiHistory = [k \in DOMAIN @ |-> IF k = idx THEN rssi ELSE @[k]],
              !.ev.oob = @ \/ idx >= SPECTRUM_MAX_STEPS]

GetRssi(g) == g.rfLevel

Measure(g) ==
    LET rssi == GetRssi(g)
    IN  [SetRssiHistory([g EXCEPT !.scanInfo.rssi = rssi], g.scanInfo.i, rssi)
            EXCEPT !.ev.measured = Append(@, g.scanInfo.i)]

IsBlacklisted(g, idx) ==
    /\ g.blacklistFreqsIdx # 0
    /\ \E i \in DOMAIN g.blacklistFreqs : g.blacklistFreqs[i] = idx

IsBlacklistedP(g, idx) ==
    \E i \in DOMAIN g.blacklistFreqs : g.blacklistFreqs[i] = idx

Blacklisted(g, idx) ==
    IF g.variant = "part_000" THEN IsBlacklistedP(g, idx) ELSE IsBlacklisted(g, idx)

Blacklist(g) ==
    LET g1 == [g EXCEPT !.blacklistFreqs[g.blacklistFreqsIdx % BLACKLIST_MAX_ENTRIES]
                            = g.peak.i,
                        !.blacklistFreqsIdx = U8(@ + 1),
                        !.since.listed = @ \cup {g.peak.i}]
        g2 == SetRssiHistory(g1, g.peak.i, RSSI_MAX_VALUE)
    IN  ResetScanStats(ToggleRX(ResetPeak(g2), FALSE))

----------------------------------------------------------------------------
(* Waterfall.  waterfallHistory[bin][row] of the C array is the element    *)
(* bin * depth + row of the flat function waterfallHistory of the model.   *)

Depth(g) ==
    IF g.variant = "part_000" THEN WATERFALL_HISTORY_DEPTH_P ELSE WATERFALL_HISTORY_DEPTH

Bins == 0 .. (SPECTRUM_MAX_STEPS - 1)

SetMax(S) == IF S = {} THEN 0 ELSE CHOOSE m \in S : \A v \in S : v <= m
SetMin(S) == IF S = {} THEN RSSI_MAX_VALUE ELSE CHOOSE m \in S : \A v \in S : m <= v

UpdateWaterfallNoBoost(g) ==
    LET wi == (g.waterfallIndex + 1) % WATERFALL_HISTORY_DEPTH
        valid == {g.rssiHistory[x] : x \in Bins} \ {RSSI_MAX_VALUE, 0}
        minRssi == SetMin(valid)
        maxRssi == SetMax(valid)
        range == IF maxRssi > minRssi THEN maxRssi - minRssi ELSE 1
        level(x) ==
            LET rssi == g.rssiHistory[x]
                normalized == ((rssi - minRssi) * 15) \div range
                l == U8(normalized % 16)
            IN  IF rssi = RSSI_MAX_VALUE \/ rssi = 0 THEN 0 ELSE l
    IN  [g EXCEPT !.waterfallIndex = wi,
                  !.waterfallHistory =
                      [k \in DOMAIN @ |->
                          IF k % WATERFALL_HISTORY_DEPTH = wi
                          THEN level(k \div WATERFALL_HISTORY_DEPTH) ELSE @[k]],
                  !.ev.wfPush = @ + 1,
                  !.ev.wfRows = @ \cup {wi},
                  !.ev.wfMax = Max(@, SetMax({level(x) : x \in Bins}))]

UpdateWaterfall(g) ==
    LET wi == (g.waterfallIndex + 1) % WATERFALL_HISTORY_DEPTH
        valid == {g.rssiHistory[x] : x \in Bins} \ {RSSI_MAX_VALUE, 0}
        minRssi == SetMin(valid)
        maxRssi == SetMax(valid)
        range == IF maxRssi > minRssi THEN maxRssi - minRssi ELSE 1
        level(x) ==
            LET rssi == g.rssiHistory[x]
                normalized == ((rssi - minRssi) * 15) \div range
                l == U8(normalized % 16)
            IN  IF rssi = RSSI_MAX_VALUE \/ rssi = 0 THEN 0
                ELSE IF l > 0 /\ l < 3 THEN 3 ELSE l
    IN  [g EXCEPT !.waterfallIndex = wi,
                  !.waterfallHistory =
                      [k \in DOMAIN @ |->
                          IF k % WATERFALL_HISTORY_DEPTH = wi
                          THEN level(k \div WATERFALL_HISTORY_DEPTH) ELSE @[k]],
                  !.ev.wfPush = @ + 1,
                  !.ev.wfRows = @ \cup {wi},
                  !.ev.wfMax = Max(@, SetMax({level(x) : x \in Bins}))]

(* part_000: the row is written at the cursor before the cursor moves, the  *)
(* two subscripts are exchanged, and the cursor wraps at WATERFALL_ROWS.    *)
(* dz is what a division by zero yields.                                    *)
UpdateWaterfallP(g, dz) ==
    LET wi == g.waterfallIndex
        den == g.scanInfo.rssiMax - g.scanInfo.rssiMin + 1
        intensity(x) ==
            LET rssi == g.rssiHistory[x \div (2 ^ g.settings.stepsCount)]
                diff == rssi - g.scanInfo.rssiMin
            IN  IF rssi > g.scanInfo.rssiMin
                THEN IF den = 0 THEN dz ELSE U8(DivU32(diff * 15, den))
                ELSE 0
        used == \E x \in Bins :
                    g.rssiHistory[x \div (2 ^ g.settings.stepsCount)] > g.scanInfo.rssiMin
        first == wi * WATERFALL_HISTORY_DEPTH_P
    IN  [g EXCEPT !.waterfallIndex = (wi + 1) % WATERFALL_ROWS,
                  !.waterfallHistory =
                      [k \in DOMAIN @ |->
                          IF k >= first /\ k < first + SPECTRUM_MAX_STEPS
                          THEN intensity(k - first) ELSE @[k]],
                  !.ev.wfPush = @ + 1,
                  !.ev.wfRows = @ \cup {(first + x) % WATERFALL_HISTORY_DEPTH_P : x \in Bins},
                  !.ev.wfMax = Max(@, SetMax({intensity(x) : x \in Bins})),
                  !.ev.divZero = @ \/ (used /\ den = 0)]

PushWaterfallLine(g) ==
    LET wi == (g.waterfallIndex + 1) % WATERFALL_HISTORY_DEPTH_P
        steps == GetStepsCount(g)
        level(i) ==
            LET l0 == IF g.rssiHistory[i] > g.settings.dbMin
                      THEN U8(g.rssiHistory[i] - g.settings.dbMin) ELSE 0
                l1 == l0 \div 4
            IN  IF l1 > 15 THEN 15 ELSE l1
    IN  [g EXCEPT !.waterfallIndex = wi,
                  !.waterfallHistory =
                      [k \in DOMAIN @ |->
                          IF k % WATERFALL_HISTORY_DEPTH_P = wi
                             /\ k \div WATERFALL_HISTORY_DEPTH_P < steps
                          THEN level(k \div WATERFALL_HISTORY_DEPTH_P) ELSE @[k]],
                  !.ev.wfPush = @ + 1,
                  !.ev.wfRows = @ \cup {wi},
                  !.ev.wfMax = Max(@, SetMax({level(i) : i \in 0 .. (steps - 1)}))]

(* DrawWaterfall: the history row drawn at vertical offset y_offset, the
   newest at offset 0. *)
HistoryRow(g, y_offset) ==
    LET historyRow == g.waterfallIndex - y_offset
    IN  IF historyRow < 0 THEN historyRow + Depth(g) ELSE historyRow

PushWaterfall(g, in) ==
    IF g.variant = "part_000" THEN UpdateWaterfallP(g, in.dz) ELSE UpdateWaterfall(g)

----------------------------------------------------------------------------
(* Sweep, still and listening steps.  `in` holds what the hardware answers *)
(* during the tick: tail (the tail-tone interrupt is pending), oobSkip     *)
(* (the word behind rssiHistory holds RSSI_MAX_VALUE) and dz.              *)

Scan(g, in) ==
    LET i == g.scanInfo.i
        marked == IF i < SPECTRUM_MAX_STEPS THEN g.rssiHistory[i] = RSSI_MAX_VALUE
                                            ELSE in.oobSkip
        g0 == [g EXCEPT !.ev.oob = @ \/ i >= SPECTRUM_MAX_STEPS]
    IN  IF ~marked /\ ~Blacklisted(g0, i)
        THEN UpdateScanInfo(
                 [Measure(SetF(g0, g0.scanInfo.f)) EXCEPT
                      !.since.meas = @ + 1,
                      !.ev.scanAt = Append(@, << i, g0.scanInfo.f >>)])
        ELSE g0

(* NextScanStep that does not count the age of the peak. *)
NextScanStepNoAge(g) ==
    [g EXCEPT !.scanInfo.i = U16(@ + 1),
              !.scanInfo.f = AddU32(@, g.scanInfo.scanStep),
              !.ev.stepped = TRUE]

NextScanStep(g) ==
    [g EXCEPT !.peak.t = U16(@ + 1),
              !.scanInfo.i = U16(@ + 1),
              !.scanInfo.f = AddU32(@, g.scanInfo.scanStep),
              !.ev.stepped = TRUE]

WaterfallEverySecond(g, in, counter) ==
    IF U8(g[counter] + 1) >= 2
    THEN [PushWaterfall(g, in) EXCEPT ![counter] = 0]
    ELSE [g EXCEPT ![counter] = U8(@ + 1)]

(* UpdateScan without preventKeypress = false at the sweep completion. *)
UpdateScanKeepsLock(g, in) ==
    LET g1 == Scan([g EXCEPT !.since.calls = @ + 1], in)
        n == g1.scanInfo.measurementsCount
        g2 == [g1 EXCEPT !.rssiHistory =
                             [k \in DOMAIN @ |->
                                 IF n \div 128 = 0 /\ k >= n /\ k < SPECTRUM_MAX_STEPS
                                 THEN 0 ELSE @[k]],
                         !.rounds = @ + 1,
                         !.ev.completion = TRUE,
                         !.ev.trigAtCompletion = g1.settings.rssiTriggerLevel]
        g3 == WaterfallEverySecond(UpdatePeakInfo(g2), in, "wfCounterScan")
    IN  IF g1.scanInfo.i < n THEN NextScanStep(g1)
        ELSE IF PeakOver(g3) THEN TuneToPeak(ToggleRX(g3, TRUE))
        ELSE [g3 EXCEPT !.newScanStart = TRUE]

UpdateScan(g, in) ==
    LET g1 == Scan([g EXCEPT !.since.calls = @ + 1], in)
        n == g1.scanInfo.measurementsCount
        g2 == [g1 EXCEPT !.rssiHistory =
                             [k \in DOMAIN @ |->
                                 IF n \div 128 = 0 /\ k >= n /\ k < SPECTRUM_MAX_STEPS
                                 THEN 0 ELSE @[k]],
                         !.preventKeypress = FALSE,
                         !.rounds = @ + 1,
                         !.ev.completion = TRUE,
                         !.ev.trigAtCompletion = g1.settings.rssiTriggerLevel]
        g3 == WaterfallEverySecond(UpdatePeakInfo(g2), in, "wfCounterScan")
    IN  IF g1.scanInfo.i < n THEN NextScanStep(g1)
        ELSE IF PeakOver(g3) THEN TuneToPeak(ToggleRX(g3, TRUE))
        ELSE [g3 EXCEPT !.newScanStart = TRUE]

(* UpdateStill reading the RSSI a second time before it uses the sample. *)
UpdateStillMeasuresTwice(g) ==
    LET g1 == [Measure(Measure(g)) EXCEPT !.preventKeypress = FALSE]
        g2 == AutoTrigger([g1 EXCEPT !.peak.rssi = g1.scanInfo.rssi])
    IN  IF PeakOver(g2) \/ g2.monitorMode THEN ToggleRX(g2, TRUE) ELSE g2

UpdateStill(g) ==
    LET g1 == [Measure(g) EXCEPT !.preventKeypress = FALSE]
        g2 == AutoTrigger([g1 EXCEPT !.peak.rssi = g1.scanInfo.rssi])
    IN  IF PeakOver(g2) \/ g2.monitorMode THEN ToggleRX(g2, TRUE) ELSE g2

ListenReload(g) ==
    IF g.variant = "part_000"
    THEN (IF g.currentState = "STILL" THEN LISTEN_T_HOLD ELSE LISTEN_T_HOLD_P)
    ELSE LISTEN_T_HOLD

(* UpdateListening that ends listening on a weak sample even in monitor mode. *)
UpdateListeningNoMonitor(g, in) ==
    LET tailFound == in.tail
        g0 == [g EXCEPT !.preventKeypress = FALSE,
                        !.listenT = IF tailFound THEN 0 ELSE @,
                        !.ev.tail = tailFound]
        g1 == IF g0.currentState = "SPECTRUM"
              THEN WaterfallEverySecond(Measure(g0), in, "wfCounterListen")
              ELSE Measure(g0)
        g2 == [g1 EXCEPT !.peak.rssi = g1.scanInfo.rssi, !.rounds = @ + 1,
                         !.ev.listened = TRUE]
    IN  IF g0.listenT # 0 THEN [g0 EXCEPT !.listenT = @ - 1]
        ELSE IF PeakOver(g2) /\ ~tailFound
             THEN [g2 EXCEPT !.listenT = ListenReload(g2)]
             ELSE [ResetStats(ToggleRX(g2, FALSE)) EXCEPT !.ev.unlock = TRUE]

UpdateListening(g, in) ==
    LET tailFound == in.tail
        g0 == [g EXCEPT !.preventKeypress = FALSE,
                        !.listenT = IF tailFound THEN 0 ELSE @,
                        !.ev.tail = tailFound]
        g1 == IF g0.currentState = "SPECTRUM"
              THEN WaterfallEverySecond(Measure(g0), in, "wfCounterListen")
              ELSE Measure(g0)
        g2 == [g1 EXCEPT !.peak.rssi = g1.scanInfo.rssi, !.rounds = @ + 1,
                         !.ev.listened = TRUE]
    IN  IF g0.listenT # 0 THEN [g0 EXCEPT !.listenT = @ - 1]
        ELSE IF (PeakOver(g2) /\ ~tailFound) \/ g2.monitorMode
             THEN [g2 EXCEPT !.listenT = ListenReload(g2)]
             ELSE [ResetStats(ToggleRX(g2, FALSE)) EXCEPT !.ev.unlock = TRUE]

----------------------------------------------------------------------------
(* Settings in flash.  FlashRecord(b) is the record that holds b in byte 3 *)
(* and the bytes of FlashRest elsewhere.                                   *)

FlashRecord(b) == [k \in 0 .. 7 |-> IF k = 3 THEN b ELSE FlashRest[k + 1]]

LoadSettings(g) ==
    LET data == g.flash
        ssi == data[3] \div 16
        sc == (data[3] % 16) \div 4
        bw == data[3] % 4
    IN  [g EXCEPT !.settings.scanStepIndex = IF ssi > 14 THEN S_STEP_25_0kHz ELSE ssi,
                  !.settings.stepsCount = IF sc > 3 THEN STEPS_64 ELSE sc,
                  !.settings.listenBw = IF bw > 2 THEN 0 ELSE bw]

(* SaveSettings that fills data[] without reading the record first. *)
SaveSettingsNoRead(g) ==
    [g EXCEPT !.flash =
                  [k \in 0 .. 7 |->
                      IF k = 3 THEN U8(g.settings.scanStepIndex * 16
                                       + g.settings.stepsCount * 4 + g.settings.listenBw)
                      ELSE 0]]

SaveSettings(g) ==
    [g EXCEPT !.flash[3] = U8(g.settings.scanStepIndex * 16 + g.settings.stepsCount * 4
                              + g.settings.listenBw)]

----------------------------------------------------------------------------
(* Functions run by key presses *)

(* SetState that does not record the state it leaves. *)
SetStateForgetsPrevious(g, state) == [g EXCEPT !.currentState = state]

SetState(g, state) ==
    [g EXCEPT !.previousState = g.currentState, !.currentState = state]

DeInitSpectrum(g) == [SetF(g, g.initialFreq) EXCEPT !.isInitialized = FALSE]

HalfBW(g) == [g EXCEPT !.settings.frequencyChangeStep = GetBW(g) \div 2]

UpdateScanStep(g, inc) ==
    LET g1 == [g EXCEPT !.settings.scanStepIndex =
                            IF inc THEN (IF @ # S_STEP_100_0kHz THEN @ + 1 ELSE 0)
                                   ELSE (IF @ # 0 THEN @ - 1 ELSE S_STEP_100_0kHz)]
    IN  ResetBlacklist(RelaunchScan(HalfBW(g1)))

UpdateScanStepP(g, inc) ==
    [g EXCEPT !.settings.scanStepIndex =
                  IF inc THEN (IF @ < Len(scanStepValues) - 1 THEN @ + 1 ELSE @)
                         ELSE (IF @ > 0 THEN @ - 1 ELSE @)]

UpdateCurrentFreq(g, inc) ==
    IF inc /\ LtU32(g.currentFreq, F_MAX)
    THEN ResetBlacklist(RelaunchScan(
             [g EXCEPT !.currentFreq = AddU32(@, g.settings.frequencyChangeStep)]))
    ELSE IF ~inc /\ LtU32(F_MIN, g.currentFreq)
         THEN ResetBlacklist(RelaunchScan(
                  [g EXCEPT !.currentFreq = SubU32(@, g.settings.frequencyChangeStep)]))
         ELSE g

UpdateCurrentFreqP(g, inc) ==
    LET step == scanStepValues[g.settings.scanStepIndex + 1]
    IN  RelaunchScanP([g EXCEPT !.currentFreq = IF inc THEN AddU32(@, step)
                                                   ELSE SubU32(@, step)])

UpdateCurrentFreqStill(g, inc) ==
    LET offset == modulationTypeTuneSteps[g.settings.modulationType + 1]
        f == g.fMeasure
    IN  SetF(g, IF inc /\ LtU32(f, F_MAX) THEN AddU32(f, offset)
                ELSE IF ~inc /\ LtU32(F_MIN, f) THEN SubU32(f, offset) ELSE f)

UpdateFreqChangeStep(g, inc) ==
    LET diff == U16(GetScanStep(g) * 4)
    IN  [g EXCEPT !.settings.frequencyChangeStep =
                      IF inc /\ @ < 200000 THEN @ + diff
                      ELSE IF ~inc /\ @ > 10000 THEN @ - diff ELSE @]

UpdateFreqChangeStepP(g, inc) ==
    RelaunchScanP([g EXCEPT !.settings.frequencyChangeStep =
                                IF inc THEN AddU32(@, JUMP_P)
                                ELSE IF LtU32(JUMP_P, @) THEN SubU32(@, JUMP_P) ELSE @])

ToggleModulation(g) ==
    RelaunchScan([g EXCEPT !.settings.modulationType =
                               IF @ < MODULATION_UKNOWN - 1 THEN @ + 1 ELSE 0])

ToggleModulationP(g) ==
    RelaunchScanP([g EXCEPT !.settings.modulationType = (@ + 1) % MODULATION_UKNOWN])

ToggleListeningBW(g) ==
    [g EXCEPT !.settings.listenBw = IF @ = 2 THEN 0 ELSE @ + 1]

ToggleBacklight(g) == [g EXCEPT !.settings.backlightState = ~@]

ToggleStepsCount(g) ==
    LET g1 == [g EXCEPT !.settings.stepsCount = IF @ = STEPS_128 THEN STEPS_16 ELSE @ - 1]
    IN  ResetBlacklist(RelaunchScan(HalfBW(g1)))

ToggleStepsCountP(g) ==
    ResetPeak(RelaunchScanP([g EXCEPT !.settings.stepsCount = (@ + 1) % 4]))

----------------------------------------------------------------------------
(* Frequency entry *)

Digits == << "KEY_0", "KEY_1", "KEY_2", "KEY_3", "KEY_4",
             "KEY_5", "KEY_6", "KEY_7", "KEY_8", "KEY_9" >>

DigitKeys == {Digits[i] : i \in DOMAIN Digits}

\* key - KEY_0
KeyDigit(key) == (CHOOSE i \in DOMAIN Digits : Digits[i] = key) - 1

\* base after k multiplications by 10
RECURSIVE Base(_)
Base(k) == IF k = 0 THEN 100000 ELSE MulU32(Base(k - 1), 10)

\* the two accumulation loops of UpdateFreqInput
RECURSIVE WholePart(_, _, _)
WholePart(arr, dotIndex, i) ==
    IF i < 0 THEN 0
    ELSE AddU32(MulU32(Base(dotIndex - 1 - i), KeyDigit(arr[i])),
                WholePart(arr, dotIndex, i - 1))

RECURSIVE FracPart(_, _, _, _)
FracPart(arr, dotIndex, i, n) ==
    IF i >= n THEN 0
    ELSE KeyDigit(arr[i]) * (10000 \div 10 ^ (i - dotIndex - 1))
         + FracPart(arr, dotIndex, i + 1, n)

FreqInput(g) ==
    SetState([g EXCEPT !.freqInput.index = 0, !.freqInput.dotIndex = 0,
                       !.freqInput.tempFreq = 0],
             "FREQ_INPUT")

(* UpdateFreqInput whose KEY_EXIT case leaves freqInputIndex as it is. *)
UpdateFreqInputKeepsChar(g, key) ==
    LET fi == g.freqInput
        dot1 == IF key = "KEY_STAR" THEN fi.index ELSE fi.dotIndex
        idx == IF key = "KEY_EXIT" THEN fi.index ELSE U8(fi.index + 1)
        dot2 == IF key = "KEY_EXIT" /\ dot1 = idx THEN 0 ELSE dot1
        arr == IF key = "KEY_EXIT" THEN fi.arr
               ELSE [i \in DOMAIN fi.arr |-> IF i = fi.index THEN key ELSE fi.arr[i]]
        dotIndex == IF dot2 = 0 THEN idx ELSE dot2
        tempFreq == AddU32(WholePart(arr, dotIndex, dotIndex - 1),
                           FracPart(arr, dotIndex, dotIndex + 1, idx))
    IN  IF key # "KEY_EXIT" /\ fi.index >= FREQ_INPUT_LEN THEN g
        ELSE IF key = "KEY_STAR" /\ (fi.index = 0 \/ fi.dotIndex # 0) THEN g
        ELSE [g EXCEPT !.freqInput = [index |-> idx, dotIndex |-> dot2,
                                      arr |-> arr, tempFreq |-> tempFreq]]

UpdateFreqInput(g, key) ==
    LET fi == g.freqInput
        dot1 == IF key = "KEY_STAR" THEN fi.index ELSE fi.dotIndex
        idx == IF key = "KEY_EXIT" THEN U8(fi.index - 1) ELSE U8(fi.index + 1)
        dot2 == IF key = "KEY_EXIT" /\ dot1 = idx THEN 0 ELSE dot1
        arr == IF key = "KEY_EXIT" THEN fi.arr
               ELSE [i \in DOMAIN fi.arr |-> IF i = fi.index THEN key ELSE fi.arr[i]]
        dotIndex == IF dot2 = 0 THEN idx ELSE dot2
        tempFreq == AddU32(WholePart(arr, dotIndex, dotIndex - 1),
                           FracPart(arr, dotIndex, dotIndex + 1, idx))
    IN  IF key # "KEY_EXIT" /\ fi.index >= FREQ_INPUT_LEN THEN g
        ELSE IF key = "KEY_STAR" /\ (fi.index = 0 \/ fi.dotIndex # 0) THEN g
        ELSE [g EXCEPT !.freqInput = [index |-> idx, dotIndex |-> dot2,
                                      arr |-> arr, tempFreq |-> tempFreq]]

----------------------------------------------------------------------------
(* Key handlers of spectrum.c *)

OnKeyDown(g, key) ==
    CASE key = "KEY_3" -> UpdateDBMax(g, TRUE)
      [] key = "KEY_9" -> UpdateDBMax(g, FALSE)
      [] key = "KEY_1" -> UpdateScanStep(g, TRUE)
      [] key = "KEY_7" -> UpdateScanStep(g, FALSE)
      [] key = "KEY_2" -> UpdateFreqChangeStep(g, TRUE)
      [] key = "KEY_8" -> UpdateFreqChangeStep(g, FALSE)
      [] key = "KEY_UP" -> UpdateCurrentFreq(g, TRUE)
      [] key = "KEY_DOWN" -> UpdateCurrentFreq(g, FALSE)
      [] key = "KEY_SIDE1" -> Blacklist(g)
      [] key = "KEY_STAR" -> UpdateRssiTriggerLevel(g, TRUE)
      [] key = "KEY_F" -> UpdateRssiTriggerLevel(g, FALSE)
      [] key = "KEY_5" -> FreqInput(g)
      [] key = "KEY_0" -> ToggleModulation(g)
      [] key = "KEY_6" -> ToggleListeningBW(g)
      [] key = "KEY_4" -> ToggleStepsCount(g)
      [] key = "KEY_SIDE2" -> ToggleBacklight(g)
      [] key = "KEY_PTT" -> TuneToPeak(SetState(g, "STILL"))
      [] key = "KEY_EXIT" -> IF g.menuState # 0 THEN [g EXCEPT !.menuState = 0]
                             ELSE DeInitSpectrum(SaveSettings(g))
      [] OTHER -> g

(* OnKeyDownFreqInput whose KEY_MENU case does not look at the band limits. *)
OnKeyDownFreqInputNoRange(g, key) ==
    CASE key \in DigitKeys \cup {"KEY_STAR"} -> UpdateFreqInput(g, key)
      [] key = "KEY_EXIT" -> IF g.freqInput.index = 0 THEN SetState(g, g.previousState)
                             ELSE UpdateFreqInput(g, key)
      [] key = "KEY_MENU" ->
            LET g1 == [SetState(g, g.previousState)
                          EXCEPT !.currentFreq = g.freqInput.tempFreq]
            IN  IF g1.currentState = "SPECTRUM" THEN RelaunchScan(ResetBlacklist(g1))
                ELSE SetF(g1, g1.currentFreq)
      [] OTHER -> g

OnKeyDownFreqInput(g, key) ==
    CASE key \in DigitKeys \cup {"KEY_STAR"} -> UpdateFreqInput(g, key)
      [] key = "KEY_EXIT" -> IF g.freqInput.index = 0 THEN SetState(g, g.previousState)
                             ELSE UpdateFreqInput(g, key)
      [] key = "KEY_MENU" ->
            LET g1 == [SetState(g, g.previousState)
                          EXCEPT !.currentFreq = g.freqInput.tempFreq]
            IN  IF LtU32(g.freqInput.tempFreq, F_MIN) \/ LtU32(F_MAX, g.freqInput.tempFreq)
                THEN g
                ELSE IF g1.currentState = "SPECTRUM" THEN RelaunchScan(ResetBlacklist(g1))
                ELSE SetF(g1, g1.currentFreq)
      [] OTHER -> g

(* OnKeyDownStill whose EXIT leaves monitor mode as it is. *)
OnKeyDownStillKeepsMonitor(g, key) ==
    CASE key = "KEY_3" -> UpdateDBMax(g, TRUE)
      [] key = "KEY_9" -> UpdateDBMax(g, FALSE)
      [] key = "KEY_UP" -> IF g.menuState # 0 THEN g ELSE UpdateCurrentFreqStill(g, TRUE)
      [] key = "KEY_DOWN" -> IF g.menuState # 0 THEN g ELSE UpdateCurrentFreqStill(g, FALSE)
      [] key = "KEY_STAR" -> UpdateRssiTriggerLevel(g, TRUE)
      [] key = "KEY_F" -> UpdateRssiTriggerLevel(g, FALSE)
      [] key = "KEY_5" -> FreqInput(g)
      [] key = "KEY_0" -> ToggleModulation(g)
      [] key = "KEY_6" -> ToggleListeningBW(g)
      [] key = "KEY_SIDE1" -> [g EXCEPT !.monitorMode = ~@]
      [] key = "KEY_SIDE2" -> ToggleBacklight(g)
      [] key = "KEY_MENU" -> [g EXCEPT !.menuState = IF @ = MENU_LAST THEN 1 ELSE @ + 1]
      [] key = "KEY_EXIT" -> IF g.menuState = 0
                             THEN RelaunchScan(SetState(g, "SPECTRUM"))
                             ELSE [g EXCEPT !.menuState = 0]
      [] OTHER -> g

OnKeyDownStill(g, key) ==
    CASE key = "KEY_3" -> UpdateDBMax(g, TRUE)
      [] key = "KEY_9" -> UpdateDBMax(g, FALSE)
      [] key = "KEY_UP" -> IF g.menuState # 0 THEN g ELSE UpdateCurrentFreqStill(g, TRUE)
      [] key = "KEY_DOWN" -> IF g.menuState # 0 THEN g ELSE UpdateCurrentFreqStill(g, FALSE)
      [] key = "KEY_STAR" -> UpdateRssiTriggerLevel(g, TRUE)
      [] key = "KEY_F" -> UpdateRssiTriggerLevel(g, FALSE)
      [] key = "KEY_5" -> FreqInput(g)
      [] key = "KEY_0" -> ToggleModulation(g)
      [] key = "KEY_6" -> ToggleListeningBW(g)
      [] key = "KEY_SIDE1" -> [g EXCEPT !.monitorMode = ~@]
      [] key = "KEY_SIDE2" -> ToggleBacklight(g)
      [] key = "KEY_MENU" -> [g EXCEPT !.menuState = IF @ = MENU_LAST THEN 1 ELSE @ + 1]
      [] key = "KEY_EXIT" -> IF g.menuState = 0
                             THEN RelaunchScan([SetState(g, "SPECTRUM")
                                                   EXCEPT !.monitorMode = FALSE])
                             ELSE [g EXCEPT !.menuState = 0]
      [] OTHER -> g

----------------------------------------------------------------------------
(* Key handlers of part_000 *)

OnKeyDownP(g, key) ==
    CASE key = "KEY_3" -> UpdateDBMax(g, TRUE)
      [] key = "KEY_9" -> UpdateDBMax(g, FALSE)
      [] key = "KEY_1" -> UpdateScanStepP(g, TRUE)
      [] key = "KEY_7" -> UpdateScanStepP(g, FALSE)
      [] key = "KEY_2" -> UpdateFreqChangeStepP(g, TRUE)
      [] key = "KEY_8" -> UpdateFreqChangeStepP(g, FALSE)
      [] key = "KEY_UP" -> UpdateCurrentFreqP(g, TRUE)
      [] key = "KEY_DOWN" -> UpdateCurrentFreqP(g, FALSE)
      [] key = "KEY_STAR" -> UpdateRssiTriggerLevel(g, TRUE)
      [] key = "KEY_F" -> UpdateRssiTriggerLevel(g, FALSE)
      [] key = "KEY_5" -> FreqInput(g)
      [] key = "KEY_0" -> ToggleModulationP(g)
      [] key = "KEY_6" -> ToggleListeningBW(g)
      [] key = "KEY_4" -> ToggleStepsCountP(g)
      [] key = "KEY_SIDE2" -> ToggleBacklight(g)
      [] key = "KEY_PTT" -> TuneToPeak(SetState(g, "STILL"))
      [] key = "KEY_EXIT" -> IF g.menuState # 0 THEN [g EXCEPT !.menuState = 0]
                             ELSE DeInitSpectrum(g)
      [] OTHER -> g

OnKeyDownFreqInputP(g, key) ==
    CASE key \in DigitKeys \cup {"KEY_STAR"} -> UpdateFreqInput(g, key)
      [] key = "KEY_EXIT" -> IF g.freqInput.index = 0 THEN SetState(g, g.previousState)
                             ELSE UpdateFreqInput(g, key)
      [] key = "KEY_MENU" ->
            IF ~LtU32(g.freqInput.tempFreq, F_MIN) /\ ~LtU32(F_MAX, g.freqInput.tempFreq)
            THEN RelaunchScanP([SetState(g, g.previousState)
                                   EXCEPT !.currentFreq = g.freqInput.tempFreq])
            ELSE g
      [] OTHER -> g

OnKeyDownStillP(g, key) ==
    CASE key = "KEY_3" -> UpdateDBMax(g, TRUE)
      [] key = "KEY_9" -> UpdateDBMax(g, FALSE)
      [] key = "KEY_UP" -> UpdateCurrentFreqP(g, TRUE)
      [] key = "KEY_DOWN" -> UpdateCurrentFreqP(g, FALSE)
      [] key = "KEY_5" -> FreqInput(g)
      [] key = "KEY_EXIT" -> RelaunchScanP(SetState(g, "SPECTRUM"))
      [] OTHER -> g

----------------------------------------------------------------------------
(* Keyboard polling *)

GetKey(g) == g.pressed

KeyDispatch(g, key) ==
    LET g1 == [g EXCEPT !.ev.key = key]
    IN  IF g.variant = "part_000"
        THEN CASE g.currentState = "SPECTRUM" -> OnKeyDownP(g1, key)
               [] g.currentState = "FREQ_INPUT" -> OnKeyDownFreqInputP(g1, key)
               [] OTHER -> OnKeyDownStillP(g1, key)
        ELSE CASE g.currentState = "SPECTRUM" -> OnKeyDown(g1, key)
               [] g.currentState = "FREQ_INPUT" -> OnKeyDownFreqInput(g1, key)
               [] OTHER -> OnKeyDownStill(g1, key)

HandleUserInput(g) ==
    LET cur == GetKey(g)
        counter == IF cur # "KEY_INVALID" /\ cur = g.kbd.current
                   THEN (IF g.kbd.counter < 16 THEN g.kbd.counter + 1
                                               ELSE g.kbd.counter - 3)
                   ELSE 0
        g1 == [g EXCEPT !.kbd = [prev |-> g.kbd.current, current |-> cur,
                                 counter |-> counter],
                        !.ev.polled = TRUE]
    IN  IF counter = 3 \/ counter = 16 THEN KeyDispatch(g1, cur) ELSE g1

----------------------------------------------------------------------------
(* One pass of the main loop *)

StateStep(g, in) ==
    IF g.isListening /\ g.currentState # "FREQ_INPUT" THEN UpdateListening(g, in)
    ELSE IF g.currentState = "SPECTRUM" THEN UpdateScan(g, in)
    ELSE IF g.currentState = "STILL" THEN UpdateStill(g)
    ELSE g

TickC(g, in) ==
    LET g1 == IF ~g.preventKeypress THEN HandleUserInput(g) ELSE g
        g2 == IF g1.newScanStart THEN [SweepStarted(InitScan(g1)) EXCEPT !.newScanStart = FALSE] ELSE g1
    IN  StateStep(g2, in)

TickP(g, in) ==
    LET g1 == IF ~g.preventKeypress THEN HandleUserInput(g) ELSE g
        g2 == IF g1.newScanStart
              THEN [SweepStarted(InitScan(PushWaterfallLine(g1))) EXCEPT !.newScanStart = FALSE]
              ELSE g1
    IN  StateStep(g2, in)

TickBody(g, in) == IF g.variant = "part_000" THEN TickP(g, in) ELSE TickC(g, in)

(* part_000 only: the watchdog in the loop of APP_RunSpectrum *)
Watchdog(g) ==
    IF g.variant # "part_000" THEN g
    ELSE IF ~g.preventKeypress THEN [g EXCEPT !.preventKeypressTimeout = 0]
    ELSE IF g.preventKeypressTimeout + 1 > WATCHDOG_P
         THEN [g EXCEPT !.preventKeypressTimeout = @ + 1, !.preventKeypress = FALSE]
         ELSE [g EXCEPT !.preventKeypressTimeout = @ + 1]

(* Entry: everything APP_RunSpectrum does before its loop *)
RunSpectrumInit(g, vfoFreq, modulation) ==
    LET g1 == LoadSettings(g)
        f == SubU32(vfoFreq, (GetStepsCount(g1) \div 2) * GetScanStep(g1))
        g2 == [g1 EXCEPT !.currentFreq = f, !.initialFreq = f,
                         !.isListening = TRUE, !.newScanStart = TRUE]
        g3 == ToggleRX(ToggleRX(g2, TRUE), FALSE)
        g4 == Relaunch([g3 EXCEPT !.settings.modulationType = modulation])
    IN  [g4 EXCEPT !.rssiHistory =
                       [k \in DOMAIN @ |-> IF k < SPECTRUM_MAX_STEPS THEN 0 ELSE @[k]],
                   !.waterfallHistory = [k \in DOMAIN @ |-> 0],
                   !.waterfallIndex = 0,
                   !.isInitialized = TRUE,
                   !.preventKeypressTimeout = 0]

----------------------------------------------------------------------------
(* The state machine *)

G ==
    [ variant |-> variant, autoSquelch |-> autoSquelch, dBmCorr |-> dBmCorr,
      isInitialized |-> isInitialized, isListening |-> isListening,
      monitorMode |-> monitorMode, newScanStart |-> newScanStart,
      preventKeypress |-> preventKeypress, audioState |-> audioState,
      currentState |-> currentState, previousState |-> previousState,
      peak |-> peak, scanInfo |-> scanInfo, settings |-> settings,
      fMeasure |-> fMeasure, currentFreq |-> currentFreq, initialFreq |-> initialFreq,
      rssiHistory |-> rssiHistory, waterfallHistory |-> waterfallHistory,
      waterfallIndex |-> waterfallIndex,
      wfCounterScan |-> wfCounterScan, wfCounterListen |-> wfCounterListen,
      menuState |-> menuState, listenT |-> listenT,
      blacklistFreqs |-> blacklistFreqs, blacklistFreqsIdx |-> blacklistFreqsIdx,
      kbd |-> kbd, rfLevel |-> rfLevel, pressed |-> pressed, events |-> events,
      rounds |-> rounds, preventKeypressTimeout |-> preventKeypressTimeout,
      since |-> since, freqInput |-> freqInput, flash |-> flash, ev |-> ev ]

Apply(g) ==
    /\ variant' = g.variant /\ autoSquelch' = g.autoSquelch /\ dBmCorr' = g.dBmCorr
    /\ isInitialized' = g.isInitialized /\ isListening' = g.isListening
    /\ monitorMode' = g.monitorMode /\ newScanStart' = g.newScanStart
    /\ preventKeypress' = g.preventKeypress /\ audioState' = g.audioState
    /\ currentState' = g.currentState /\ previousState' = g.previousState
    /\ peak' = g.peak /\ scanInfo' = g.scanInfo /\ settings' = g.settings
    /\ fMeasure' = g.fMeasure /\ currentFreq' = g.currentFreq
    /\ initialFreq' = g.initialFreq
    /\ rssiHistory' = g.rssiHistory /\ waterfallHistory' = g.waterfallHistory
    /\ waterfallIndex' = g.waterfallIndex
    /\ wfCounterScan' = g.wfCounterScan /\ wfCounterListen' = g.wfCounterListen
    /\ menuState' = g.menuState /\ listenT' = g.listenT
    /\ blacklistFreqs' = g.blacklistFreqs /\ blacklistFreqsIdx' = g.blacklistFreqsIdx
    /\ kbd' = g.kbd /\ rfLevel' = g.rfLevel /\ pressed' = g.pressed
    /\ events' = g.events /\ rounds' = g.rounds
    /\ preventKeypressTimeout' = g.preventKeypressTimeout
    /\ since' = g.since /\ freqInput' = g.freqInput /\ flash' = g.flash /\ ev' = g.ev

(* The static initialiser of settings *)
DefaultSettings ==
    [stepsCount |-> STEPS_64, scanStepIndex |-> S_STEP_25_0kHz,
     frequencyChangeStep |-> 80000, rssiTriggerLevel |-> 150,
     backlightState |-> TRUE, listenBw |-> 0, modulationType |-> 0,
     dbMin |-> DISPLAY_DBM_MIN, dbMax |-> DISPLAY_DBM_MAX]

(* scanInfo before the first sweep *)
DefaultScanInfo ==
    [rssi |-> 0, rssiMin |-> 0, rssiMax |-> 0, i |-> 0, iPeak |-> 0,
     f |-> 0, fPeak |-> 0, scanStep |-> 0, measurementsCount |-> 0]

(* The static initialisers of the file that runs, with s in settings and   *)
(* si in scanInfo                                                          *)
DefaultHistory == [k \in 0 .. SPECTRUM_MAX_STEPS |-> 0]

StaticsWith(s, si, h) ==
    /\ isInitialized = FALSE /\ isListening = TRUE /\ monitorMode = FALSE
    /\ newScanStart = TRUE /\ preventKeypress = TRUE /\ audioState = TRUE
    /\ currentState = "SPECTRUM" /\ previousState = "SPECTRUM"
    /\ peak = [t |-> 0, rssi |-> 0, f |-> 0, i |-> 0]
    /\ scanInfo = si
    /\ settings = s
    /\ fMeasure = 0 /\ currentFreq = 0 /\ initialFreq = 0
    /\ rssiHistory = h
    /\ waterfallHistory =
           [k \in 0 .. (SPECTRUM_MAX_STEPS *
                        (IF variant = "part_000" THEN WATERFALL_HISTORY_DEPTH_P
                                                 ELSE WATERFALL_HISTORY_DEPTH) - 1) |-> 0]
    /\ waterfallIndex = 0 /\ wfCounterScan = 0 /\ wfCounterListen = 0
    /\ menuState = 0 /\ listenT = 0
    /\ blacklistFreqs = [k \in 0 .. (BLACKLIST_MAX_ENTRIES - 1) |-> 0]
    /\ blacklistFreqsIdx = 0
    /\ kbd = [prev |-> "KEY_INVALID", current |-> "KEY_INVALID", counter |-> 0]
    /\ pressed = "KEY_INVALID"
    /\ events = 0 /\ rounds = 0 /\ preventKeypressTimeout = 0
    /\ since = [calls |-> 0, meas |-> 0, fresh |-> FALSE, locked |-> 0, held |-> 0,
                listed |-> {}]
    /\ freqInput = [index |-> 0, dotIndex |-> 0,
                    arr |-> [k \in 0 .. (FREQ_INPUT_LEN - 1) |-> "KEY_0"], tempFreq |-> 0]
    /\ ev = EvNone
    /\ polls = 0

Statics == StaticsWith(DefaultSettings, DefaultScanInfo, DefaultHistory)

Init ==
    /\ variant \in Variants
    /\ autoSquelch \in (IF variant = "part_000" THEN {FALSE} ELSE BOOLEAN)
    /\ dBmCorr \in CorrVals
    /\ rfLevel \in RssiVals
    /\ flash \in {FlashRecord(b) : b \in FlashVals}
    /\ Statics

(* The application is started (again) *)
APP_RunSpectrum ==
    /\ ~isInitialized
    /\ rounds < MaxRounds
    /\ \E vfoFreq \in VfoFreqs :
           Apply(RunSpectrumInit([G EXCEPT !.ev = EvNone, !.pressed = "KEY_INVALID"],
                                 vfoFreq, 0))
    /\ polls' = 0

(* The environment may change at the start of a pass only in a slot *)
Slot ==
    \/ ev.key # "KEY_INVALID"
    \/ isListening /\ listenT \in {0, LISTEN_T_OPEN}
    \/ /\ ~isListening /\ currentState = "SPECTRUM"
       /\ scanInfo.i \in SlotBins \cup {scanInfo.measurementsCount}

Free == Slot /\ events < MaxEvents

(* The globals after one pass of the loop of APP_RunSpectrum with the given *)
(* answers of the hardware                                                 *)
Pass(level, key, cost, in) ==
    LET g == Watchdog(TickBody([G EXCEPT !.rfLevel = level, !.pressed = key,
                                         !.events = @ + cost,
                                         !.ev = [EvNone EXCEPT !.tick = TRUE]],
                               in))
    IN  [g EXCEPT !.since.locked = IF g.preventKeypress THEN @ + 1 ELSE 0,
                  !.since.held = IF g.ev.forced THEN 0
                                 ELSE IF g.ev.completion THEN @ + 1 ELSE @]

(* The keys that can be down at the start of a pass *)
KeysNow(free) ==
    IF pressed # "KEY_INVALID"
    THEN (IF ev.key = pressed THEN {"KEY_INVALID"} ELSE {pressed})
    ELSE IF free THEN Keys \cup {"KEY_INVALID"} ELSE {"KEY_INVALID"}

OobSkips == IF scanInfo.i >= SPECTRUM_MAX_STEPS THEN BOOLEAN ELSE {FALSE}

DivZeros ==
    IF variant = "part_000" /\ scanInfo.rssiMax + 1 = scanInfo.rssiMin
    THEN {0, 255} ELSE {0}

(* One pass of the loop of APP_RunSpectrum; `free` says whether the        *)
(* environment may change at its start.  GetRssi, if called, returns.      *)
TickEnv(free) ==
    /\ isInitialized
    /\ rounds < MaxRounds
    /\ \E level \in (IF free THEN RssiVals ELSE {rfLevel}),
          key \in KeysNow(free),
          tail \in (IF free /\ isListening THEN BOOLEAN ELSE {FALSE}),
          oobSkip \in OobSkips,
          dz \in DivZeros :
        LET cost == IF key # "KEY_INVALID" /\ pressed = "KEY_INVALID"
                    THEN KeyCost + (IF tail THEN 1 ELSE 0)
                    ELSE (IF level # rfLevel THEN 1 ELSE 0) + (IF tail THEN 1 ELSE 0)
        IN  /\ events + cost <= MaxEvents
            /\ Apply(Pass(level, key, cost,
                          [tail |-> tail, oobSkip |-> oobSkip, dz |-> dz]))
            /\ polls' = 0

Tick == TickEnv(Free)

Next == APP_RunSpectrum \/ Tick

Spec == Init /\ [][Next]_vars

----------------------------------------------------------------------------
(* The wait of GetRssi for the front end.  GetRssi reads register 0x63     *)
(* until its low byte is below 255; in Spec the first read succeeds.  Here *)
(* the register may answer 255 any number of times, with no key pressed    *)
(* and a constant level.                                                   *)

(* The pass that is due, with no key down, calls GetRssi: UpdateListening  *)
(* once listenT has run out, UpdateStill always, UpdateScan when Scan does *)
(* not skip the bin (bin 0 after InitScan when newScanStart is set).       *)
WillMeasure ==
    IF isListening /\ currentState # "FREQ_INPUT" THEN listenT = 0
    ELSE IF currentState = "STILL" THEN TRUE
    ELSE IF currentState = "SPECTRUM"
         THEN LET i == IF newScanStart THEN 0 ELSE scanInfo.i
              IN  /\ i < SPECTRUM_MAX_STEPS => rssiHistory[i] # RSSI_MAX_VALUE
                  /\ ~Blacklisted(G, i)
         ELSE FALSE

(* One more read of register 0x63 answers 255: GetRssi delays and reads    *)
(* again; nothing else of the pass has become visible.                     *)
GetRssiBusy ==
    /\ isInitialized
    /\ rounds < MaxRounds
    /\ pressed = "KEY_INVALID"
    /\ WillMeasure
    /\ polls' = (polls % MaxPolls) + 1
    /\ UNCHANGED progVars

TickQuiet == TickEnv(FALSE)

NextAcq == APP_RunSpectrum \/ TickQuiet \/ GetRssiBusy

(* GetRssi goes on reading while the register answers 255; nothing makes  *)
(* a busy front end become ready.                                          *)
SpecAcq == Init /\ [][NextAcq]_vars /\ WF_vars(GetRssiBusy)

----------------------------------------------------------------------------
(* The dBm conversions on their own: a sample is converted to dBm the way  *)
(* UpdateScanInfo stores settings.dbMin, and back to RSSI units the way    *)
(* ClampRssiTriggerLevel computes the lower limit of the trigger level.    *)

InitConv ==
    /\ variant = "spectrum_c"
    /\ autoSquelch = FALSE
    /\ dBmCorr \in CorrRange
    /\ rfLevel \in Rssi16
    /\ flash = FlashRecord(0)
    /\ Statics

ConvertRoundTrip ==
    /\ ~ev.conv
    /\ LET g1 == [G EXCEPT !.scanInfo.rssi = GetRssi(G)]
           g2 == [g1 EXCEPT !.settings.dbMin = Rssi2DBm(g1, g1.scanInfo.rssi)]
           g3 == [g2 EXCEPT !.settings.rssiTriggerLevel = dbm2rssi(g2, g2.settings.dbMin),
                            !.ev.conv = TRUE]
       IN  Apply(g3) /\ UNCHANGED polls

NextConv == ConvertRoundTrip

SpecConv == InitConv /\ [][NextConv]_vars

----------------------------------------------------------------------------
(* The settings record on its own: the settings the keys can reach are     *)
(* saved as KEY_EXIT saves them, the radio is switched off and on (the      *)
(* statics are initialised again) and the settings are loaded as           *)
(* APP_RunSpectrum loads them.                                             *)

SavedSettings ==
    {[DefaultSettings EXCEPT !.scanStepIndex = a, !.stepsCount = b, !.listenBw = c] :
        a \in 0 .. S_STEP_100_0kHz, b \in STEPS_128 .. STEPS_16, c \in 0 .. 2}

InitSettings ==
    /\ variant = "spectrum_c"
    /\ autoSquelch = FALSE
    /\ dBmCorr \in CorrVals
    /\ rfLevel = 0
    /\ flash \in {FlashRecord(b) : b \in {0, 255}}
    /\ \E s \in SavedSettings : StaticsWith(s, DefaultScanInfo, DefaultHistory)

SaveAndReload ==
    /\ ~ev.reloaded
    /\ LET g1 == SaveSettings(G)
           g2 == LoadSettings([g1 EXCEPT !.settings = DefaultSettings])
       IN  Apply([g2 EXCEPT !.ev.reloaded = TRUE]) /\ UNCHANGED polls

NextSettings == SaveAndReload

SpecSettings == InitSettings /\ [][NextSettings]_vars

----------------------------------------------------------------------------
(* AutoTriggerLevel on its own: one call with the trigger level a key or   *)
(* an earlier call left and the extremes a sweep recorded.                 *)

TriggerVals == (0 .. 60) \cup (140 .. 170) \cup (500 .. 530) \cup {RSSI_MAX_VALUE}

\* << rssiMin, rssiMax >> of a sweep
SweepExtremes ==
    {<< 0, 0 >>, << 10, 20 >>, << 30, 33 >>, << 138, 147 >>, << 150, 150 >>,
     << 150, 300 >>, << 500, 511 >>}

InitTrigger ==
    /\ variant \in Variants
    /\ autoSquelch = FALSE
    /\ dBmCorr \in CorrVals
    /\ rfLevel = 0
    /\ flash = FlashRecord(204)
    /\ \E trig \in TriggerVals, x \in SweepExtremes :
           StaticsWith([DefaultSettings EXCEPT !.rssiTriggerLevel = trig],
                       [DefaultScanInfo EXCEPT !.rssiMin = x[1], !.rssiMax = x[2]],
                       DefaultHistory)

AutoTriggerOnce ==
    /\ ~ev.autoTrig
    /\ Apply(AutoTrigger(G))
    /\ UNCHANGED polls

NextTrigger == AutoTriggerOnce

SpecTrigger == InitTrigger /\ [][NextTrigger]_vars

(* One press of a trigger key of spectrum.c (KEY_STAR raises, KEY_F       *)
(* lowers) on the same trigger levels.                                     *)
InitTriggerKey == InitTrigger /\ variant = "spectrum_c"

TriggerKeyOnce ==
    /\ ev.key = "KEY_INVALID"
    /\ \E inc \in BOOLEAN :
           Apply([UpdateRssiTriggerLevel(G, inc) EXCEPT
                      !.ev.key = IF inc THEN "KEY_STAR" ELSE "KEY_F"])
    /\ UNCHANGED polls

NextTriggerKey == TriggerKeyOnce

SpecTriggerKey == InitTriggerKey /\ [][NextTriggerKey]_vars

----------------------------------------------------------------------------
(* The waterfall row of one history.  rssiHistory repeats a few readings,  *)
(* each a 9-bit RSSI, 0 (no reading) or the blacklist mark, and            *)
(* UpdateWaterfall runs once on it.                                        *)

HistoryVals == {0, RSSI_MAX_VALUE, 100, 102, 107, 115, 511}

HistoryPeriod == 3

Histories ==
    {[k \in 0 .. SPECTRUM_MAX_STEPS |->
          IF k = SPECTRUM_MAX_STEPS THEN 0 ELSE q[(k % HistoryPeriod) + 1]] :
       q \in [1 .. HistoryPeriod -> HistoryVals]}

InitWaterfall ==
    /\ variant = "spectrum_c"
    /\ autoSquelch = FALSE
    /\ dBmCorr \in CorrVals
    /\ rfLevel = 0
    /\ flash = FlashRecord(204)
    /\ \E h \in Histories : StaticsWith(DefaultSettings, DefaultScanInfo, h)

UpdateWaterfallOnce ==
    /\ ev.wfPush = 0
    /\ Apply(UpdateWaterfall(G))
    /\ UNCHANGED polls

NextWaterfall == UpdateWaterfallOnce

SpecWaterfall == InitWaterfall /\ [][NextWaterfall]_vars

----------------------------------------------------------------------------
(* Typing.  Keys are pressed one after another while the level stays as   *)
(* it is: one frequency entry (KEY_5, EntryCost) and single keys (cost 1)   *)
(* up to MaxTyping; the characters of the entry are free.                  *)

LevelsTyping == {0, 300}

Keyboard == DigitKeys \cup {"KEY_STAR", "KEY_F", "KEY_UP", "KEY_DOWN", "KEY_MENU",
                            "KEY_EXIT", "KEY_PTT", "KEY_SIDE1", "KEY_SIDE2"}

ModeKeys == {"KEY_5", "KEY_UP", "KEY_DOWN", "KEY_PTT"}

(* The keys the user may press with i characters entered *)
EntryKeysAt(i) ==
    {"KEY_1", "KEY_MENU", "KEY_EXIT"}
        \cup (IF i = 1 THEN {"KEY_8"} ELSE {})
        \cup (IF i = 2 THEN {"KEY_STAR"} ELSE {})

(* The keys that may go down at the start of the pass that is due: any     *)
(* time during frequency entry, right after the last key was released in   *)
(* STILL, at the second bin of a sweep and when the receiver has just      *)
(* locked.                                                                 *)
TypedNow ==
    IF currentState = "FREQ_INPUT" THEN EntryKeysAt(freqInput.index)
    ELSE IF \/ currentState = "STILL" /\ kbd.prev # "KEY_INVALID"
            \/ currentState = "SPECTRUM" /\ ~isListening /\ scanInfo.i = 1
            \/ currentState = "SPECTRUM" /\ isListening /\ listenT = LISTEN_T_OPEN
         THEN ModeKeys
         ELSE {}

TypingCost(key) ==
    IF key = "KEY_INVALID" \/ pressed # "KEY_INVALID" THEN 0
    ELSE IF currentState = "FREQ_INPUT"
         THEN (IF key = "KEY_MENU" \/ (key = "KEY_EXIT" /\ freqInput.index = 0)
               THEN 1 ELSE 0)
         ELSE IF key = "KEY_5" THEN EntryCost ELSE 1

InitEntry ==
    /\ variant \in Variants
    /\ autoSquelch = FALSE
    /\ dBmCorr \in CorrVals
    /\ rfLevel \in LevelsTyping
    /\ flash = FlashRecord(204)
    /\ Statics

(* One pass of the loop with a steady level; a key of `offered` may go    *)
(* down if none is, at the cost the function `cost` gives it.             *)
TickKeyed(offered, cost, budget) ==
    /\ isInitialized
    /\ rounds < MaxRounds
    /\ \E key \in (IF pressed # "KEY_INVALID"
                   THEN (IF ev.key = pressed THEN {"KEY_INVALID"} ELSE {pressed})
                   ELSE offered \cup {"KEY_INVALID"}),
          oobSkip \in OobSkips,
          dz \in DivZeros :
        /\ events + cost[key] <= budget
        /\ Apply(Pass(rfLevel, key, cost[key],
                      [tail |-> FALSE, oobSkip |-> oobSkip, dz |-> dz]))
        /\ polls' = 0

TickTyping ==
    TickKeyed(TypedNow, [k \in Keyboard \cup {"KEY_INVALID"} |-> TypingCost(k)], MaxTyping)

NextEntry == APP_RunSpectrum \/ TickTyping

SpecEntry == InitEntry /\ [][NextEntry]_vars

----------------------------------------------------------------------------
(* Modes.  Any key of the keyboard may be pressed; the keys that change    *)
(* the mode or the monitor cost 1, the others OtherCost, up to MaxPresses. *)

ModeSwitchKeys == {"KEY_5", "KEY_PTT", "KEY_EXIT", "KEY_MENU", "KEY_SIDE1"}

PressedNow ==
    IF \/ currentState = "FREQ_INPUT"
       \/ currentState = "STILL" /\ kbd.prev # "KEY_INVALID"
       \/ currentState = "SPECTRUM" /\ ~isListening /\ scanInfo.i = 1
       \/ currentState = "SPECTRUM" /\ isListening /\ listenT = LISTEN_T_OPEN
    THEN Keyboard
    ELSE {}

PressCost(key) ==
    IF key = "KEY_INVALID" \/ pressed # "KEY_INVALID" THEN 0
    ELSE IF key \in ModeSwitchKeys THEN 1 ELSE OtherCost

TickModes ==
    TickKeyed(PressedNow, [k \in Keyboard \cup {"KEY_INVALID"} |-> PressCost(k)], MaxPresses)

NextModes == APP_RunSpectrum \/ TickModes

SpecModes == InitEntry /\ [][NextModes]_vars

(* The same keyboard on spectrum.c, started with the saved settings of a   *)
(* span sweep (204: 25 kHz steps) or of a center sweep (60: 1 kHz steps).  *)
FlashSweep == {204, 60}

InitSweep ==
    /\ variant = "spectrum_c"
    /\ autoSquelch = FALSE
    /\ dBmCorr \in CorrVals
    /\ rfLevel \in LevelsTyping
    /\ flash \in {FlashRecord(b) : b \in FlashSweep}
    /\ Statics

NextSweep == APP_RunSpectrum \/ TickModes

SpecSweep == InitSweep /\ [][NextSweep]_vars

----------------------------------------------------------------------------
(* Fading signal.  No key and no tail tone; the level is a signal (160), a *)
(* level just under the default trigger level (148) or a weaker one (144), *)
(* and changes between two sweeps or before a listening sample.            *)

LevelsListen == {144, 148, 160}

InitListen ==
    /\ variant \in Variants
    /\ autoSquelch = FALSE
    /\ dBmCorr \in CorrVals
    /\ rfLevel \in LevelsListen
    /\ flash = FlashRecord(204)
    /\ Statics

TickListen ==
    /\ isInitialized
    /\ rounds < MaxRounds
    /\ \E level \in (IF newScanStart \/ (isListening /\ listenT = 0)
                      THEN LevelsListen ELSE {rfLevel}),
          oobSkip \in OobSkips, dz \in DivZeros :
        LET cost == IF level # rfLevel THEN 1 ELSE 0
        IN  /\ events + cost <= MaxEvents
            /\ Apply(Pass(level, "KEY_INVALID", cost,
                          [tail |-> FALSE, oobSkip |-> oobSkip, dz |-> dz]))
            /\ polls' = 0

NextListen == APP_RunSpectrum \/ TickListen

SpecListen == InitListen /\ [][NextListen]_vars

----------------------------------------------------------------------------
(* Long runs.  Nobody touches the keyboard and the band is quiet: the      *)
(* level is one of two weak levels and changes at most MaxLevelChanges     *)
(* times, between two sweeps; the sweeps go on for MaxSteps sweep steps.    *)

LevelsSteady == {148, 150}

InitSteady ==
    /\ variant \in Variants
    /\ autoSquelch = FALSE
    /\ dBmCorr \in CorrVals
    /\ rfLevel \in LevelsSteady
    /\ flash \in {FlashRecord(b) : b \in FlashVals}
    /\ Statics

TickSteady ==
    /\ isInitialized
    /\ rounds * (scanInfo.measurementsCount + 1) < MaxSteps
    /\ \E level \in (IF newScanStart /\ events < MaxLevelChanges
                      THEN LevelsSteady ELSE {rfLevel}),
          oobSkip \in OobSkips,
          dz \in DivZeros :
        /\ Apply(Pass(level, "KEY_INVALID", IF level # rfLevel THEN 1 ELSE 0,
                      [tail |-> FALSE, oobSkip |-> oobSkip, dz |-> dz]))
        /\ polls' = 0

NextSteady == APP_RunSpectrum \/ TickSteady

SpecSteady == InitSteady /\ [][NextSteady]_vars

----------------------------------------------------------------------------
(* Claims *)

TriggerLo == dbm2rssi(G, settings.dbMin)
TriggerHi == dbm2rssi(G, settings.dbMax)

(* C1: after every tick, a trigger level that is not the sentinel 65535 lies *)
(* between dbm2rssi(dbMin) and dbm2rssi(dbMax).                             *)
C1_TriggerWithinDisplayRange ==
    (ev.tick /\ settings.rssiTriggerLevel # RSSI_MAX_VALUE)
        => (TriggerLo <= settings.rssiTriggerLevel
            /\ settings.rssiTriggerLevel <= TriggerHi)

(* C2: at a sweep completion in SPECTRUM the receiver is switched to         *)
(* listening if and only if peak.rssi is strictly greater than the trigger  *)
(* level; with peak.rssi <= trigger (equality included) no lock is entered, *)
(* newScanStart is set, and the next tick starts a new sweep at step 0.     *)
C2_LockIffStrictlyAbove ==
    [][ /\ ev'.completion =>
              /\ ev'.lock <=> (peak'.rssi > settings'.rssiTriggerLevel)
              /\ ~ev'.lock => newScanStart'
        /\ (ev.completion /\ ~ev.lock /\ ev'.tick /\ ev'.key = "KEY_INVALID") =>
              (since'.fresh /\ since'.calls = 1 /\ scanInfo'.i = 1) ]_vars

(* C3: whenever a sweep completion enters signal lock, the last frequency    *)
(* written to the front end in that tick is peak.f, and fMeasure stays equal *)
(* to peak.f for as long as the receiver keeps listening in SPECTRUM state.  *)
C3_LockTunesToPeak ==
    /\ (ev.completion /\ ev.lock) =>
           /\ ev.tuned # << >>
           /\ ev.tuned[Len(ev.tuned)] = peak.f
           /\ fMeasure = peak.f
    /\ (isInitialized /\ isListening /\ currentState = "SPECTRUM") => fMeasure = peak.f

(* A sweep completion has entered lock after tuning at least one sweep step
   away from the peak, and the receiver is on the peak. *)
C3_LockAwayFromLastStep ==
    /\ ev.completion /\ ev.lock
    /\ currentState = "SPECTRUM" /\ isListening
    /\ Len(ev.tuned) = 2
    /\ ev.tuned[1] # peak.f
    /\ fMeasure = peak.f

(* C4: when UpdateListening ends listening in SPECTRUM state the sweep
   statistics are reset (rssiMax = 0, rssiMin = 65535), and the next RSSI
   measurement is taken at step index 0 on frequency GetFStart(), never at
   the peak's bin. *)
C4_UnlockRestartsSweep ==
    [][ /\ (ev'.unlock /\ currentState' = "SPECTRUM") =>
               /\ scanInfo'.rssiMax = 0
               /\ scanInfo'.rssiMin = RSSI_MAX_VALUE
        /\ (ev.unlock /\ currentState = "SPECTRUM"
                /\ ev'.tick /\ ev'.key = "KEY_INVALID" /\ ev'.measured # << >>) =>
               /\ ev'.measured[1] = 0
               /\ ev'.tuned # << >>
               /\ ev'.tuned[1] = GetFStart(G) ]_vars

(* C5: a listening sample (monitor mode off, no tail) in the band
   trigger - margin < rssi <= trigger keeps the receiver listening, while a
   sweep completion whose peak is not above the trigger level enters no
   lock. *)
C5_StayThresholdBelowEntry ==
    /\ ( /\ ev.listened /\ ~ev.tail /\ ~monitorMode
         /\ settings.rssiTriggerLevel # RSSI_MAX_VALUE
         /\ settings.rssiTriggerLevel - HYSTERESIS_P < peak.rssi
         /\ peak.rssi <= settings.rssiTriggerLevel )
           => (isListening /\ ~ev.unlock)
    /\ (ev.completion /\ peak.rssi <= settings.rssiTriggerLevel) => ~ev.lock

NoBinBlacklisted ==
    /\ blacklistFreqsIdx = 0
    /\ \A i \in 0..(SPECTRUM_MAX_STEPS - 1) : rssiHistory[i] # RSSI_MAX_VALUE

(* C6: a sweep started fresh at step 0 with N bins and nothing blacklisted
   reaches its completion processing on the N-th UpdateScan call, after
   exactly N measurements. *)
C6_CompletionOnNthCall ==
    (ev.completion /\ since.fresh /\ NoBinBlacklisted) =>
        /\ since.calls = scanInfo.measurementsCount
        /\ since.meas = scanInfo.measurementsCount

(* C7: every bin measured has an index below measurementsCount, rssiHistory
   is never accessed at index 128 or above, and peak.i is below the number
   of steps. *)
C7_MeasuredIndexInRange ==
    /\ \A k \in 1..Len(ev.measured) :
           ev.measured[k] < scanInfo.measurementsCount
    /\ ~ev.oob
    /\ isInitialized => peak.i < GetStepsCount(G)

(* C8: a sweep completion that begins with the trigger level at the sentinel
   65535 leaves the trigger level at rssiMax + 20. *)
C8_SentinelArmsAtPeakPlus20 ==
    (ev.completion /\ ev.trigAtCompletion = RSSI_MAX_VALUE) =>
        settings.rssiTriggerLevel = U16(scanInfo.rssiMax + 20)

(* C9: every value a waterfall push writes to waterfallHistory is in 0..15,
   whatever rssiHistory, rssiMin and rssiMax hold. *)
C9_WaterfallLevelsIn0To15 ==
    ev.wfPush > 0 => ev.wfMax \in 0..15

(* C10: waterfallIndex stays below the history depth; a waterfall push
   advances it by one modulo the depth and writes only the row at the new
   cursor, which is the row DrawWaterfall reads at age 0. *)
C10_WaterfallCursor ==
    [][ /\ waterfallIndex' < Depth(G)
        /\ ev'.wfPush = 1 =>
               /\ waterfallIndex' = (waterfallIndex + 1) % Depth(G)
               /\ ev'.wfRows = {waterfallIndex'}
               /\ ev'.wfRows = {HistoryRow(G, 0)'} ]_vars

(* C11: for every 16-bit rssi and every band correction, converting rssi to
   dBm and back gives rssi rounded down to an even value: the result differs
   from rssi by at most 1 and does not wrap around 16 bits. *)
C11_RoundTripWithinOne ==
    ev.conv =>
        /\ settings.rssiTriggerLevel = 2 * (rfLevel \div 2)
        /\ rfLevel - settings.rssiTriggerLevel \in {0, 1}

(* The largest odd sample with the largest correction has been converted
   there and back. *)
C11_RoundTripAtTop ==
    /\ ev.conv /\ rfLevel = RSSI_MAX_VALUE /\ dBmCorr = 127
    /\ settings.dbMin = 32767 - 160 + 127
    /\ settings.rssiTriggerLevel = RSSI_MAX_VALUE - 1

(* C12: a GetRssi call that has begun to wait for the front end returns
   after a bounded number of polls, also when register 0x63 keeps answering
   255: the pass completes and the sweep goes on. *)
C12_GetRssiReturns == (polls > 0) ~> (polls = 0)

(* C13: preventKeypress is set at the end of at most SPECTRUM_MAX_STEPS + 1
   passes in a row, far fewer than the 100000 of the watchdog; a pass that
   runs the sweep-completion processing, a still update or a listening
   update ends with it cleared; and a pass that begins with it cleared
   handles key input. *)
C13_KeypressLockBounded ==
    [][ /\ since'.locked <= SPECTRUM_MAX_STEPS + 1
        /\ SPECTRUM_MAX_STEPS + 1 <= WATCHDOG_P
        /\ (ev'.tick /\ (ev'.completion \/ ev'.listened
                            \/ (currentState' = "STILL" /\ ev'.measured # << >>)))
               => ~preventKeypress'
        /\ (ev'.tick /\ ~preventKeypress) => ev'.polled ]_vars

(* preventKeypress has stayed set through the 128 passes of the longest
   sweep, and the pass that is due runs the completion that clears it. *)
C13_LockedForLongestSweep ==
    /\ isInitialized /\ preventKeypress
    /\ since.locked = SPECTRUM_MAX_STEPS
    /\ currentState = "SPECTRUM" /\ ~isListening
    /\ scanInfo.i = scanInfo.measurementsCount

(* C14: every pass of Tick polls the keyboard (runs HandleUserInput), and a
   debounced EXIT key reaches the key handler in the pass that sees it. *)
C14_InputHandledEveryTick ==
    ev.tick => ev.polled

(* C15: every pass of Tick takes at most one RSSI measurement, in every
   state and whatever key it handles. *)
C15_OneMeasurementPerTick ==
    Len(ev.measured) <= 1

(* A pass in STILL state has handled a key and taken its one measurement. *)
C15_KeyAndMeasurementInStill ==
    /\ ev.tick /\ ev.key # "KEY_INVALID"
    /\ currentState = "STILL"
    /\ Len(ev.measured) = 1

(* The entered frequency lies within the band limits (unsigned compare) *)
TempFreqInBand ==
    ~LtU32(freqInput.tempFreq, F_MIN) /\ ~LtU32(F_MAX, freqInput.tempFreq)

(* C16: a pass that handles KEY_MENU in FREQ_INPUT with F_MIN <= tempFreq  *)
(* <= F_MAX sets currentFreq to tempFreq and returns to previousState; if  *)
(* that is SPECTRUM the sweep is restarted (InitScan ran, and UpdateScan   *)
(* was called at most once since, for bin 0).  With tempFreq outside the   *)
(* limits the pass leaves currentState, currentFreq and the sweep as they  *)
(* were.                                                                   *)
C16_MenuConfirmsInBandOnly ==
    [][ (currentState = "FREQ_INPUT" /\ ev'.tick /\ ev'.key = "KEY_MENU") =>
            IF TempFreqInBand
            THEN /\ currentFreq' = freqInput.tempFreq
                 /\ currentState' = previousState
                 /\ previousState = "SPECTRUM" =>
                        /\ since'.fresh /\ since'.calls <= 1
                        /\ scanInfo'.i = since'.calls
            ELSE /\ currentState' = currentState
                 /\ currentFreq' = currentFreq
                 /\ scanInfo' = scanInfo /\ newScanStart' = newScanStart
                 /\ peak' = peak /\ rssiHistory' = rssiHistory
                 /\ isListening' = isListening ]_vars

(* C16 witness: 18.1 MHz was entered from SPECTRUM and confirmed. *)
C16_ConfirmedFromSpectrum ==
    /\ ev.key = "KEY_MENU" /\ previousState = "FREQ_INPUT"
    /\ currentState = "SPECTRUM" /\ currentFreq = 1810000
    /\ freqInput.tempFreq = 1810000 /\ scanInfo.i = 1

(* C17: freqInputIndex is always within 0 .. 10.  A pass that handles      *)
(* KEY_EXIT in FREQ_INPUT with no character entered returns to             *)
(* previousState and keeps currentFreq; with k > 0 characters entered it   *)
(* stays in FREQ_INPUT, takes freqInputIndex to k - 1 and keeps the        *)
(* entered characters, previousState and currentFreq.                      *)
C17_ExitErasesThenLeaves ==
    [][ /\ freqInput'.index \in 0 .. FREQ_INPUT_LEN
        /\ (currentState = "FREQ_INPUT" /\ ev'.tick /\ ev'.key = "KEY_EXIT") =>
              IF freqInput.index = 0
              THEN /\ currentState' = previousState
                   /\ currentState' \in {"SPECTRUM", "STILL"}
                   /\ currentFreq' = currentFreq
              ELSE /\ currentState' = "FREQ_INPUT"
                   /\ previousState' = previousState
                   /\ freqInput'.index = freqInput.index - 1
                   /\ freqInput'.arr = freqInput.arr
                   /\ currentFreq' = currentFreq ]_vars

(* C17 witness: ten characters were entered and KEY_EXIT removed the last. *)
C17_TenthCharacterErased ==
    /\ currentState = "FREQ_INPUT" /\ ev.key = "KEY_EXIT"
    /\ freqInput.index = FREQ_INPUT_LEN - 1
    /\ freqInput.arr[FREQ_INPUT_LEN - 1] = "KEY_1"

InBand(f) == ~LtU32(f, F_MIN) /\ ~LtU32(F_MAX, f)

(* C18: a pass that handles KEY_UP, KEY_DOWN or KEY_MENU with currentFreq  *)
(* within F_MIN .. F_MAX leaves currentFreq within F_MIN .. F_MAX.         *)
C18_NavigationStaysInBand ==
    [][ (ev'.tick /\ ev'.key \in {"KEY_UP", "KEY_DOWN", "KEY_MENU"} /\ InBand(currentFreq))
            => InBand(currentFreq') ]_vars

(* C19 (spectrum.c): after every pass that ends in STILL with monitorMode  *)
(* set the receiver is listening; a pass that handles KEY_EXIT in STILL    *)
(* with menuState = 0 ends in SPECTRUM with monitorMode clear, the         *)
(* receiver not listening and the sweep restarted (InitScan ran and the    *)
(* pass called UpdateScan once, for bin 0).                                *)
C19_MonitorListensExitRescans ==
    [][ (variant = "spectrum_c" /\ ev'.tick) =>
            /\ (currentState' = "STILL" /\ monitorMode') => isListening'
            /\ (currentState = "STILL" /\ ev'.key = "KEY_EXIT" /\ menuState = 0) =>
                   /\ currentState' = "SPECTRUM"
                   /\ ~monitorMode' /\ ~isListening'
                   /\ since'.fresh /\ since'.calls = 1 /\ scanInfo'.i = 1 ]_vars

(* C19 witness: in monitor mode UpdateListening took a sample below the    *)
(* trigger level and the receiver went on listening.                       *)
C19_MonitorHoldsWeakSignal ==
    /\ variant = "spectrum_c" /\ currentState = "STILL" /\ monitorMode
    /\ ev.listened /\ isListening /\ listenT = LISTEN_T_HOLD
    /\ scanInfo.rssi < settings.rssiTriggerLevel

(* C20: a run of APP_RunSpectrum starts with currentState = SPECTRUM;      *)
(* currentState changes only in a pass, and only from SPECTRUM to STILL    *)
(* on KEY_PTT, from SPECTRUM or STILL to FREQ_INPUT on KEY_5 (which        *)
(* records the state left in previousState), from STILL to SPECTRUM on     *)
(* KEY_EXIT with menuState = 0, and from FREQ_INPUT to previousState on    *)
(* KEY_MENU or KEY_EXIT; in FREQ_INPUT previousState is SPECTRUM or STILL  *)
(* and does not change.                                                    *)
C20_StateTransitions ==
    [][ /\ (~isInitialized /\ isInitialized') => currentState' = "SPECTRUM"
        /\ currentState' # currentState =>
              /\ ev'.tick
              /\ \/ /\ currentState = "SPECTRUM" /\ currentState' = "STILL"
                    /\ ev'.key = "KEY_PTT"
                 \/ /\ currentState \in {"SPECTRUM", "STILL"}
                    /\ currentState' = "FREQ_INPUT"
                    /\ ev'.key = "KEY_5" /\ previousState' = currentState
                 \/ /\ currentState = "STILL" /\ currentState' = "SPECTRUM"
                    /\ ev'.key = "KEY_EXIT" /\ menuState = 0
                 \/ /\ currentState = "FREQ_INPUT" /\ currentState' = previousState
                    /\ ev'.key \in {"KEY_MENU", "KEY_EXIT"}
        /\ currentState' = "FREQ_INPUT" => previousState' \in {"SPECTRUM", "STILL"}
        /\ (currentState = "FREQ_INPUT" /\ currentState' = "FREQ_INPUT")
               => previousState' = previousState ]_vars

(* C20 witness: frequency entry was started in STILL and left again. *)
C20_BackToStillFromEntry ==
    /\ ev.key \in {"KEY_MENU", "KEY_EXIT"}
    /\ currentState = "STILL" /\ previousState = "FREQ_INPUT"

(* The bins Blacklist has put into blacklistFreqs since ResetBlacklist ran *)
MarkedBins ==
    {blacklistFreqs[k] :
        k \in 0 .. (Min(blacklistFreqsIdx, BLACKLIST_MAX_ENTRIES) - 1)}

(* C21: while a bin b stays marked by Blacklist (no ResetBlacklist), every
   pass leaves rssiHistory[b] at 65535, a sweep step never measures b (Scan
   tunes only the bins it measures), a peak refreshed from a sweep that
   found a signal is never at b, and a sweep started by InitScan still
   completes on its usual UpdateScan call. *)
C21_BlacklistedBinSkipped ==
    [][ (variant = "spectrum_c" /\ ev'.tick) =>
            \A b \in MarkedBins \cap MarkedBins' :
                /\ rssiHistory'[b] = RSSI_MAX_VALUE
                /\ (currentState' = "SPECTRUM" /\ ~ev'.listened) =>
                       \A k \in DOMAIN ev'.measured : ev'.measured[k] # b
                /\ (ev'.forced /\ scanInfo'.rssiMax > 0) => peak'.i # b
                /\ (ev'.completion /\ since.fresh) =>
                       since'.calls = scanInfo'.measurementsCount + 1 ]_vars

(* C22: for every scanStepIndex <= 14, stepsCount <= 3 and listenBw <= 2,
   saving the settings and loading them again gives back these three values;
   byte 3 of the record holds them packed as scanStepIndex:4, stepsCount:2,
   listenBw:2, and the other seven bytes are as they were before the save. *)
C22_SettingsRoundTrip ==
    [][ ev'.reloaded =>
            /\ settings'.scanStepIndex = settings.scanStepIndex
            /\ settings'.stepsCount = settings.stepsCount
            /\ settings'.listenBw = settings.listenBw
            /\ flash'[3] \div 16 = settings.scanStepIndex
            /\ (flash'[3] \div 4) % 4 = settings.stepsCount
            /\ flash'[3] % 4 = settings.listenBw
            /\ \A k \in (0 .. 7) \ {3} : flash'[k] = flash[k] ]_vars

C22_LargestValuesRestored ==
    /\ ev.reloaded
    /\ settings.scanStepIndex = S_STEP_100_0kHz
    /\ settings.stepsCount = STEPS_16
    /\ settings.listenBw = 2
    /\ flash = FlashRecord(238)

(* C23: at a sweep completion with peak.f # 0, peak.t < 1024 and the sweep
   maximum not above peak.rssi (equal included), UpdatePeakInfo leaves
   peak.f, peak.rssi, peak.i and the trigger level as they are and adds
   exactly 1 to peak.t; at every other completion the peak becomes rssiMax,
   fPeak and iPeak of the sweep. *)
C23_PeakHeldOrRefreshed ==
    [][ (ev'.tick /\ ev'.completion /\ ev'.key = "KEY_INVALID") =>
            IF peak.f # 0 /\ peak.t < PEAK_TIMEOUT /\ scanInfo'.rssiMax <= peak.rssi
            THEN /\ peak' = [peak EXCEPT !.t = peak.t + 1]
                 /\ settings'.rssiTriggerLevel = settings.rssiTriggerLevel
                 /\ ~ev'.forced
            ELSE /\ peak'.rssi = scanInfo'.rssiMax
                 /\ peak'.f = scanInfo'.fPeak
                 /\ peak'.i = scanInfo'.iPeak
                 /\ ev'.forced ]_vars

C23_EqualMaximumHeld ==
    /\ ev.completion /\ ~ev.forced
    /\ scanInfo.rssiMax = peak.rssi
    /\ peak.rssi = 150
    /\ peak.t > SPECTRUM_MAX_STEPS

(* ceil(a / b) *)
CeilDiv(a, b) == (a + b - 1) \div b

(* C24: a sweep completion that finds peak.t >= 1024 refreshes the peak
   from the maximum of that sweep and sets peak.t to 0, also when that
   maximum is not above the held peak; and while sweep follows sweep the
   peak is held at no more than ceil(1024 / steps) completions in a row, so
   that a refresh comes within ceil(1024 / steps) + 1 sweeps of the last. *)
C24_PeakRefreshedByAge ==
    [][ (variant = "spectrum_c" /\ ev'.tick) =>
            /\ (ev'.completion /\ ev'.key = "KEY_INVALID" /\ peak.t >= PEAK_TIMEOUT) =>
                   /\ ev'.forced
                   /\ peak'.t = 0
                   /\ peak'.rssi = scanInfo'.rssiMax
                   /\ peak'.f = scanInfo'.fPeak
                   /\ peak'.i = scanInfo'.iPeak
            /\ since'.held <= CeilDiv(PEAK_TIMEOUT, GetStepsCount(G)) ]_vars

C24_RefreshedWithoutStrongerSignal ==
    /\ variant = "spectrum_c"
    /\ ev.forced
    /\ events = 0
    /\ rounds > 1
    /\ peak.rssi = 150
    /\ scanInfo.rssiMax = 150
    /\ GetStepsCount(G) = 16

(* C25: peak.t is 0 at the end of every pass that refreshed the peak; in a
   pass without a refresh and without a key it grows by exactly 1 when the
   pass took a sweep step (NextScanStep) or held the peak at a completion,
   and stays as it is otherwise; it decreases only in a pass that refreshed
   the peak or handled a key (ResetPeak). *)
C25_PeakAgeCountsUp ==
    [][ (variant = "spectrum_c" /\ ev'.tick) =>
            /\ ev'.forced => peak'.t = 0
            /\ (~ev'.forced /\ ev'.key = "KEY_INVALID") =>
                   peak'.t = IF ev'.stepped \/ ev'.completion THEN peak.t + 1
                                                               ELSE peak.t
            /\ peak'.t < peak.t => (ev'.forced \/ ev'.key # "KEY_INVALID") ]_vars

C25_AgePastTimeoutInsideSweep ==
    /\ variant = "spectrum_c"
    /\ ev.stepped
    /\ peak.t > PEAK_TIMEOUT

(* C26: one AutoTriggerLevel call that finds a trigger level other than the
   sentinel 65535 changes it by at most 3, towards the level it computes as
   its target and never past that level, whatever the trigger level was. *)
C26_TriggerRampBounded ==
    [][ (ev'.autoTrig /\ settings.rssiTriggerLevel # RSSI_MAX_VALUE) =>
            LET old == settings.rssiTriggerLevel
                new == settings'.rssiTriggerLevel
                target == TriggerTarget(G)
            IN  /\ new - old \in -3 .. 3
                /\ old <= target => (old <= new /\ new <= target)
                /\ old >= target => (target <= new /\ new <= old) ]_vars

Dist(a, b) == IF a < b THEN b - a ELSE a - b

(* C27: the target of a trigger level other than the sentinel is
   scanInfo.rssiMin + 12: an update that finds the trigger level at
   rssiMin + 12 leaves it there, and an update that finds it elsewhere
   brings it closer to rssiMin + 12, so that with the same rssiMin and
   rssiMax in every sweep the level gets there after finitely many updates
   and stays. *)
C27_TriggerSettlesAtFloorPlus12 ==
    [][ (ev'.autoTrig /\ settings.rssiTriggerLevel # RSSI_MAX_VALUE) =>
            LET old == settings.rssiTriggerLevel
                new == settings'.rssiTriggerLevel
                target == U16(scanInfo.rssiMin + 12)
            IN  IF old = target THEN new = old
                ELSE Dist(new, target) < Dist(old, target) ]_vars

(* C28: AutoTriggerLevel runs in every pass of spectrum.c that completes a
   sweep, also when UpdatePeakInfo holds the peak instead of refreshing it. *)
C28_TriggerUpdatedEverySweep ==
    (variant = "spectrum_c" /\ ev.tick /\ ev.completion) => ev.autoTrig

(* C29: UpdateWaterfall of spectrum.c stores, for each of the 128 bins, 0
   when rssiHistory[x] is 0 or 65535 and otherwise
   q = ((rssi - min) * 15) div max(1, max - min), with 3 in place of a q of
   1 or 2, where min and max are the smallest and the largest rssiHistory
   entry other than 0 and 65535.  No stored level is 1 or 2, a bin holding
   the minimum stores 0 and, when max > min, a bin holding the maximum
   stores 15. *)
C29_WaterfallLevelFormula ==
    [][ (variant = "spectrum_c" /\ ev'.wfPush = ev.wfPush + 1) =>
            \A valid \in {{rssiHistory'[x] : x \in Bins} \ {0, RSSI_MAX_VALUE}} :
            \A min \in {SetMin(valid)}, max \in {SetMax(valid)} :
            \A x \in Bins :
                LET r == rssiHistory'[x]
                    q == ((r - min) * 15) \div Max(1, max - min)
                    stored == waterfallHistory'[x * WATERFALL_HISTORY_DEPTH + waterfallIndex']
                IN  /\ stored = IF r \in {0, RSSI_MAX_VALUE} THEN 0
                                ELSE IF q \in {1, 2} THEN 3 ELSE q
                    /\ stored \notin {1, 2}
                    /\ (r \in valid /\ r = min) => stored = 0
                    /\ (r \in valid /\ r = max /\ max > min) => stored = 15 ]_vars

C29_MinimumBoostedMaximum ==
    /\ ev.wfPush = 1
    /\ rssiHistory[0] = 100 /\ rssiHistory[1] = 102 /\ rssiHistory[2] = 115
    /\ waterfallHistory[0 * WATERFALL_HISTORY_DEPTH + waterfallIndex] = 0
    /\ waterfallHistory[1 * WATERFALL_HISTORY_DEPTH + waterfallIndex] = 3
    /\ waterfallHistory[2 * WATERFALL_HISTORY_DEPTH + waterfallIndex] = 15

(* C30: right after every sweep start (InitScan run by Tick on
   newScanStart, or RelaunchScan) scanInfo.i = 0, scanInfo.rssiMax = 0 and
   scanInfo.rssiMin = 65535, whatever the sweep before recorded. *)
C30_SweepStartsFromCleanStats ==
    \A k \in DOMAIN ev.starts : ev.starts[k] = << 0, 0, RSSI_MAX_VALUE >>

(* C31: in spectrum.c, after InitScan scanInfo.f is
   currentFreq - (stepsCount * scanStep) / 2 in center mode
   (scanStepIndex < S_STEP_2_5kHz) and currentFreq otherwise, and every bin
   k that Scan measures is tuned to GetFStart() + k * scanStep. *)
C31_SweepFrequencies ==
    [][ (variant = "spectrum_c" /\ ev'.tick) =>
            /\ \A n \in DOMAIN ev'.startF :
                   ev'.startF[n] =
                       IF settings'.scanStepIndex < S_STEP_2_5kHz
                       THEN SubU32(currentFreq',
                                   (GetStepsCount(G') * GetScanStep(G')) \div 2)
                       ELSE currentFreq'
            /\ \A n \in DOMAIN ev'.scanAt :
                   ev'.scanAt[n][2] =
                       AddU32(GetFStart(G'), ev'.scanAt[n][1] * GetScanStep(G')) ]_vars


C31_CenterSweepFifthBin ==
    /\ variant = "spectrum_c"
    /\ settings.scanStepIndex < S_STEP_2_5kHz
    /\ scanInfo.scanStep = 100 /\ scanInfo.measurementsCount = 16
    /\ Len(ev.scanAt) = 1
    /\ ev.scanAt[1] = << 5, SubU32(currentFreq, 800) + 500 >>

(* C32: a press of a trigger key changes settings.rssiTriggerLevel by +2
   (KEY_STAR) or -2 (KEY_F) and clamps the result into
   [dbm2rssi(dbMin), dbm2rssi(dbMax)]; whatever the level was (0, 1 and
   65535 included), lowering never gives a larger level and raising never a
   smaller one: the 16-bit value does not wrap around. *)
C32_TriggerKeyNoWrap ==
    [][ (ev'.key \in {"KEY_STAR", "KEY_F"} /\ ev.key = "KEY_INVALID") =>
            LET old == settings.rssiTriggerLevel
                new == settings'.rssiTriggerLevel
                inc == ev'.key = "KEY_STAR"
                lo == dbm2rssi(G, settings.dbMin)
                hi == dbm2rssi(G, settings.dbMax)
            IN  /\ new = clamp(IF inc THEN old + 2 ELSE old - 2, lo, hi)
                /\ inc => new >= old
                /\ ~inc => new <= old ]_vars

(* C33: in spectrum.c, once the EXIT key has been handled in SPECTRUM state
   (DeInitSpectrum retunes to initialFreq and clears isInitialized) nothing
   tunes or measures any more: the pass that handles the key tunes once, to
   initialFreq, takes no RSSI measurement, and APP_RunSpectrum returns with
   the front end on initialFreq. *)
C33_NothingAfterDeInit ==
    [][ (variant = "spectrum_c" /\ ev'.tick /\ isInitialized /\ ~isInitialized') =>
            /\ ev'.key = "KEY_EXIT"
            /\ ev'.tuned = << initialFreq' >>
            /\ ev'.measured = << >>
            /\ fMeasure' = initialFreq' ]_vars

(* C34: when a sweep completion of spectrum.c switches the receiver to
   listening, ToggleRX(true) finds fMeasure, which it copies into the
   receive configuration, already equal to peak.f. *)
C34_ReceiveConfiguredOnPeak ==
    (variant = "spectrum_c" /\ ev.completion /\ ev.lock) => ev.rxFreq = peak.f

(* C35: settings.dbMin < settings.dbMax in every reachable state of
   spectrum.c, whatever UpdateDBMax key presses and noise-floor updates of
   dbMin by UpdateScanInfo came before. *)
C35_DisplayRangeOrdered ==
    variant = "spectrum_c" => settings.dbMin < settings.dbMax

(* C36: while the receiver listens in SPECTRUM state with monitor mode off
   and no key is handled, the listen timer is at most its reload value, a
   pass that takes no sample counts it down by one, and a pass whose sample
   is below the trigger level ends listening and leaves the sweep to go on:
   with every sample below the trigger level the receiver closes within the
   reload value plus one passes. *)
C36_ListeningEndsOnAbsentSignal ==
    [][ ( /\ ev'.tick /\ ev'.key = "KEY_INVALID"
          /\ isListening /\ currentState = "SPECTRUM" /\ ~monitorMode ) =>
            /\ listenT <= (IF variant = "part_000" THEN LISTEN_T_HOLD_P ELSE LISTEN_T_HOLD)
            /\ ~ev'.listened => (isListening' /\ listenT' = listenT - 1)
            /\ (ev'.listened /\ scanInfo'.rssi < settings.rssiTriggerLevel) =>
                   (~isListening' /\ currentState' = "SPECTRUM") ]_vars


(* C36, amended: the same with the stay threshold of part_000 in place of
   the trigger level: a pass whose sample is not above
   settings.rssiTriggerLevel - 4 ends listening and leaves the sweep to go
   on, in both variants. *)
C36_ListeningEndsBelowStayThreshold ==
    [][ ( /\ ev'.tick /\ ev'.key = "KEY_INVALID"
          /\ isListening /\ currentState = "SPECTRUM" /\ ~monitorMode ) =>
            /\ listenT <= (IF variant = "part_000" THEN LISTEN_T_HOLD_P ELSE LISTEN_T_HOLD)
            /\ ~ev'.listened => (isListening' /\ listenT' = listenT - 1)
            /\ (ev'.listened /\ scanInfo'.rssi + HYSTERESIS_P <= settings.rssiTriggerLevel) =>
                   (~isListening' /\ currentState' = "SPECTRUM") ]_vars

C36_ClosedBelowStayThreshold ==
    /\ variant = "part_000"
    /\ ev.listened /\ ev.unlock /\ ~ev.tail /\ ev.key = "KEY_INVALID"
    /\ currentState = "SPECTRUM" /\ ~monitorMode /\ ~isListening
    /\ peak.rssi = 144 /\ events = 2
    /\ peak.rssi + HYSTERESIS_P <= settings.rssiTriggerLevel

(* C37: IsBlacklisted(idx) is true only for the bins that were passed to
   Blacklist() since the last ResetBlacklist (since.listed); bin 0 is not
   blacklisted because another bin is, or because blacklistFreqs is filled
   with zeros. *)
C37_OnlyListedBinsBlacklisted ==
    \A idx \in Bins : Blacklisted(G, idx) => idx \in since.listed

(* C38: peak.t never exceeds 1024 + scanInfo.measurementsCount in spectrum.c:
   a held sweep completion leaves it at 1024 or less and one sweep adds at
   most measurementsCount steps before the next completion refreshes the
   peak, so the 16-bit age never wraps. *)
C38_PeakAgeBounded ==
    variant = "spectrum_c" => peak.t <= PEAK_TIMEOUT + scanInfo.measurementsCount


C38_AgeAtItsLargest ==
    /\ variant = "spectrum_c"
    /\ scanInfo.measurementsCount = 16 /\ scanInfo.i = 16
    /\ peak.t = 1036

(* C39: in spectrum.c, whenever currentState is SPECTRUM, monitorMode is
   false and menuState is 0: monitor mode is switched on and a menu entry is
   opened only in STILL state, and STILL is left for SPECTRUM only by
   KEY_EXIT with the menu closed, which clears monitorMode. *)
C39_SweepWithoutMonitorAndMenu ==
    [][ (variant = "spectrum_c" /\ ev'.tick) =>
            /\ currentState' = "SPECTRUM" => (~monitorMode' /\ menuState' = 0)
            /\ ((monitorMode' /\ ~monitorMode) \/ (menuState' # 0 /\ menuState' # menuState))
                   => (currentState = "STILL" /\ currentState' = "STILL")
            /\ (currentState = "STILL" /\ currentState' = "SPECTRUM") =>
                   (ev'.key = "KEY_EXIT" /\ menuState = 0 /\ ~monitorMode') ]_vars

C39_SweepResumedFromStill ==
    /\ variant = "spectrum_c"
    /\ ev.key = "KEY_EXIT" /\ isInitialized
    /\ currentState = "SPECTRUM" /\ previousState = "STILL"
    /\ ~monitorMode /\ menuState = 0
    /\ events >= 3

(* C40: between two passes of the loop of spectrum.c, once the application
   is initialised, audioState equals isListening, whatever locks, ends of
   listening, relaunches and blacklist operations came before. *)
C40_AudioFollowsListening ==
    (variant = "spectrum_c" /\ isInitialized) => audioState = isListening

C40_AudioOffAfterListening ==
    /\ variant = "spectrum_c" /\ isInitialized
    /\ ev.unlock /\ ~isListening /\ ~audioState

====
